---- MODULE Spec2Model ----
(***************************************************************************)
(* Model of the optimization layer: the task scheduler                     *)
(* (optimized_modules/resource_scheduler.py: TaskQueue, ResourceMonitor,   *)
(* ResourceScheduler, AutoScaler), the cache tiers                         *)
(* (optimized_modules/intelligent_cache.py: LocalCache, RedisCache,        *)
(* DiskCache, IntelligentCache) and the cache optimizer                    *)
(* (optimized_modules/cache_optimizer.py: AdaptiveTTLStrategy,             *)
(* HotspotDetector, CacheOptimizer).  Each part has specifications of its  *)
(* own, in which the variables of the other parts keep their initial       *)
(* values.                                                                 *)
(*                                                                         *)
(* One action per operation.  The scheduling loop body (get_next_task,     *)
(* can_execute_task, _execute_task) is one action: only the scheduler      *)
(* thread adds to active_tasks, and every interleaving of another thread   *)
(* inside the body has the same effect as that thread running right before *)
(* or right after it.  The cache operations run under the lock of their    *)
(* object and are one action each.                                         *)
(*                                                                         *)
(* cpu_cores is a float in the source; it is counted here in tenths of a   *)
(* core, so the default requirement 0.1 is 1.  task_map and                *)
(* completed_tasks are dicts whose values the source never reads: they are *)
(* their key sets.  executor is the max_workers of the current pool.       *)
(* Task identifiers are the numbers 1..NumTasks.                           *)
(***************************************************************************)
EXTENDS Integers, Sequences, FiniteSets, TLC

\* ------------------------------------------------------------------ bounds
\* task identifiers are 1..NumTasks
NumTasks == 3
\* largest constructor argument max_concurrent_tasks that Init draws
MaxInitCap == 2

\* ------------------------------------------------------- program constants
CRITICAL == 1
HIGH == 2
NORMAL == 3
LOW == 4
BACKGROUND == 5
Priority == {CRITICAL, HIGH, NORMAL, LOW, BACKGROUND}

\* adjust_concurrency clamps to [MinConcurrency, MaxConcurrency]
MinConcurrency == 1
MaxConcurrency == 50

\* AutoScaler.scaling_rules
min_concurrent == 2
max_concurrent == 50

None == [task_id |-> 0]

Ids == 1..NumTasks

\* ResourceRequirement(): the dataclass defaults
DefaultRequirement ==
    [cpu_cores |-> 1, memory_mb |-> 100, disk_mb |-> 50, gpu_memory_mb |-> 0]

\* the requirement of the task built in example_usage
ExampleRequirement ==
    [cpu_cores |-> 5, memory_mb |-> 200, disk_mb |-> 100, gpu_memory_mb |-> 0]

\* requirements a submitted task may carry
Requirements == {ExampleRequirement}

\* priorities a submitted task may carry
SubmitPriorities == {CRITICAL, NORMAL}

\* dependency lists a submitted task may carry: none, or the task before it
DependencyChoices(id) == {{}} \cup {{d} : d \in {id - 1} \cap Ids}

\* Task(task_id, task_type, priority, resource_requirement, dependencies=...)
Task(id, p, deps, req) ==
    [task_id |-> id, priority |-> p, dependencies |-> deps,
     resource_requirement |-> req]

Tasks ==
    {Task(id, p, deps, req) : id \in Ids, p \in SubmitPriorities,
                              deps \in SUBSET Ids, req \in Requirements}

\* the tasks a caller submits
SubmittableTasks ==
    {t \in Tasks : t.dependencies \in DependencyChoices(t.task_id)}

\* what psutil reports for the machine: cpu_count(), virtual_memory().total
\* and disk_usage('/').total, the latter two in MB
SystemTotals == [cpu_count |-> 2, memory_total |-> 400, disk_total |-> 200]

\* ResourceUsage(): the state of current_usage before the first sample
InitialUsage == [cpu_percent |-> 0, memory_mb |-> 0, disk_mb |-> 0]

\* samples _get_current_usage may return
UsageSamples ==
    {InitialUsage, [cpu_percent |-> 100, memory_mb |-> 400, disk_mb |-> 200]}

VARIABLES
    queues,                \* TaskQueue.queues: priority -> list of tasks
    task_map,              \* TaskQueue.task_map (its key set)
    completed_tasks,       \* TaskQueue.completed_tasks (its key set)
    active_tasks,          \* ResourceScheduler.active_tasks: id -> task
    max_concurrent_tasks,  \* ResourceScheduler.max_concurrent_tasks
    executor,              \* max_workers of ResourceScheduler.executor
    executor_shutdown,     \* ResourceScheduler.executor was shut down
    work_items,            \* ids whose run_task an executor accepted
    is_running,            \* ResourceScheduler.is_running
    current_usage,         \* ResourceMonitor.current_usage
    is_monitoring,         \* AutoScaler.is_monitoring
    scaling_result,        \* outcome of the latest _evaluate_scaling call
    now,                   \* time.time(), in clock ticks
    data,                  \* LocalCache.data: key -> value
    metadata,              \* LocalCache.metadata, in dict order
    total_size,            \* LocalCache.total_size
    cleanup_alive,         \* LocalCache.cleanup_thread is alive
    redis_store,           \* the Redis keys: key -> pickled value and expiry
    disk_files,            \* DiskCache files: key -> pickled value
    disk_metadata,         \* DiskCache.metadata: key -> size, created_at, ttl
    last_set,              \* key -> time, ttl and tags of the latest set call
    redis_up,              \* the Redis server answers the client
    disk_up,               \* the cache directory can be read and written
    cache_data,            \* CacheOptimizer.cache_data, in dict order
    access_patterns,       \* AdaptiveTTLStrategy.access_patterns
    access_log,            \* HotspotDetector.access_log (the keys)
    hotspots,              \* HotspotDetector.hotspots
    metrics,               \* CacheOptimizer.metrics
    optimizer_running,     \* CacheOptimizer.is_running
    max_size,              \* CacheOptimizer.max_size
    lock_held,             \* thread -> the locks it holds, innermost last
    lock_todo              \* thread -> the lock steps left of its call

\* the fields of the cache tiers
cacheVars == <<now, data, metadata, total_size, cleanup_alive, redis_store,
               disk_files, disk_metadata, last_set, redis_up, disk_up>>

\* whether the Remote and the Disk tier respond
tierHealth == <<redis_up, disk_up>>

\* the fields of the cache optimizer
optimizerVars == <<cache_data, access_patterns, access_log, hotspots,
                   metrics, optimizer_running, max_size>>

\* the fields of the scheduler, the monitor and the scaler
schedVars == <<queues, task_map, completed_tasks, active_tasks,
               max_concurrent_tasks, executor, is_running, current_usage,
               is_monitoring, scaling_result, executor_shutdown, work_items>>

\* the thread pool behind ResourceScheduler.executor
poolVars == <<executor_shutdown, work_items>>

\* the locks of the scheduler, the queue, the monitor, the optimizer, the
\* detector and the metrics buffer
lockVars == <<lock_held, lock_todo>>

vars == <<queues, task_map, completed_tasks, active_tasks,
          max_concurrent_tasks, executor, is_running, current_usage,
          is_monitoring, scaling_result, poolVars, cacheVars, optimizerVars,
          lockVars>>

Max(a, b) == IF a >= b THEN a ELSE b
Min(a, b) == IF a <= b THEN a ELSE b

\* ------------------------------------------------------------------ heapq
\* Python lists are 0-based: At(h, p) is h[p]
At(h, p) == h[p + 1]

Swap(h, p, q) == [h EXCEPT ![p + 1] = h[q + 1], ![q + 1] = h[p + 1]]

\* Task.__lt__
Lt(a, b) == a.priority < b.priority

\* heapq._siftdown(heap, startpos, pos)
RECURSIVE SiftDown(_, _, _)
SiftDown(h, startpos, pos) ==
    IF pos > startpos
    THEN LET parentpos == (pos - 1) \div 2
         IN  IF Lt(At(h, pos), At(h, parentpos))
             THEN SiftDown(Swap(h, pos, parentpos), startpos, parentpos)
             ELSE h
    ELSE h

\* the first loop of heapq._siftup: the smaller child moves up until the
\* hole reaches a leaf; the result is the heap and the leaf position
RECURSIVE BubbleToLeaf(_, _)
BubbleToLeaf(h, pos) ==
    LET endpos == Len(h)
        leftpos == 2 * pos + 1
        rightpos == leftpos + 1
        childpos == IF rightpos < endpos /\ ~Lt(At(h, leftpos), At(h, rightpos))
                    THEN rightpos ELSE leftpos
    IN  IF leftpos < endpos
        THEN BubbleToLeaf(Swap(h, pos, childpos), childpos)
        ELSE [heap |-> h, pos |-> pos]

\* heapq._siftup(heap, pos)
SiftUp(h, pos) ==
    LET r == BubbleToLeaf(h, pos)
    IN  SiftDown(r.heap, pos, r.pos)

\* heapq.heapify(x): for i in reversed(range(n // 2)): _siftup(x, i)
RECURSIVE HeapifyFrom(_, _)
HeapifyFrom(h, i) ==
    IF i < 0 THEN h ELSE HeapifyFrom(SiftUp(h, i), i - 1)

heapify(h) == HeapifyFrom(h, (Len(h) \div 2) - 1)

\* heapq.heappop(heap), for a non-empty heap
heappop(h) ==
    LET lastelt == h[Len(h)]
        rest == SubSeq(h, 1, Len(h) - 1)
    IN  IF rest /= <<>>
        THEN [item |-> rest[1], heap |-> SiftUp([rest EXCEPT ![1] = lastelt], 0)]
        ELSE [item |-> lastelt, heap |-> rest]

\* -------------------------------------------------------------- TaskQueue
\* a dependency test that accepts every task
DependenciesNotChecked(task, completed) == TRUE

\* the dependency test of get_next_task
DependenciesMet(task, completed) ==
    \A dep \in task.dependencies : dep \in completed

\* TaskQueue.get_next_task, from priority p on
RECURSIVE ScanFrom(_, _, _)
ScanFrom(q, completed, p) ==
    IF p > BACKGROUND
    THEN [task |-> None, queues |-> q]
    ELSE IF q[p] /= <<>>
         THEN LET popped == heappop(q[p])
              IN  IF DependenciesMet(popped.item, completed)
                  THEN [task |-> popped.item,
                        queues |-> [q EXCEPT ![p] = popped.heap]]
                  ELSE ScanFrom(
                         [q EXCEPT ![p] = heapify(Append(popped.heap, popped.item))],
                         completed, p + 1)
         ELSE ScanFrom(q, completed, p + 1)

\* a scan that starts below the CRITICAL tier
get_next_task_skipping_critical(q, completed) == ScanFrom(q, completed, HIGH)

\* TaskQueue.get_next_task: the task returned (or None) and the new queues
get_next_task(q, completed) == ScanFrom(q, completed, CRITICAL)

\* add_task without the membership test on task_map
add_task_unchecked(q, tm, task) ==
    [ok |-> TRUE,
     queues |-> [q EXCEPT ![task.priority] = heapify(Append(@, task))],
     task_map |-> tm \cup {task.task_id}]

\* TaskQueue.add_task: the result and the new queues and task map
add_task(q, tm, task) ==
    IF task.task_id \in tm
    THEN [ok |-> FALSE, queues |-> q, task_map |-> tm]
    ELSE [ok |-> TRUE,
          queues |-> [q EXCEPT ![task.priority] = heapify(Append(@, task))],
          task_map |-> tm \cup {task.task_id}]

\* TaskQueue.mark_completed: the new task map
mark_completed(tm, id) == tm \ {id}

\* -------------------------------------------------------- ResourceMonitor
\* ResourceMonitor.get_available_resources
get_available_resources(usage) ==
    [cpu_cores |-> Max(1, (SystemTotals.cpu_count * (100 - usage.cpu_percent)) \div 10),
     memory_mb |-> Max(100, SystemTotals.memory_total - usage.memory_mb),
     disk_mb |-> Max(50, SystemTotals.disk_total - usage.disk_mb),
     gpu_memory_mb |-> 0]

\* ------------------------------------------------------ ResourceScheduler
\* an admission test that leaves the disk component out
can_execute_task_without_disk(task, active, cap, usage) ==
    IF Cardinality(DOMAIN active) >= cap
    THEN FALSE
    ELSE LET available == get_available_resources(usage)
         IN  /\ available.cpu_cores >= task.resource_requirement.cpu_cores
             /\ available.memory_mb >= task.resource_requirement.memory_mb

\* ResourceScheduler.can_execute_task
can_execute_task(task, active, cap, usage) ==
    IF Cardinality(DOMAIN active) >= cap
    THEN FALSE
    ELSE LET available == get_available_resources(usage)
         IN  /\ available.cpu_cores >= task.resource_requirement.cpu_cores
             /\ available.memory_mb >= task.resource_requirement.memory_mb
             /\ available.disk_mb >= task.resource_requirement.disk_mb

\* the clamp of adjust_concurrency
ClampConcurrency(new_max) == Max(MinConcurrency, Min(new_max, MaxConcurrency))

\* ResourceScheduler.adjust_concurrency: the new cap (and pool size)
adjust_concurrency(new_max) == ClampConcurrency(new_max)

\* ResourceScheduler.get_scheduler_stats.  The dict literal is evaluated in
\* order: len(active_tasks), get_queue_stats(), and then the name asdict,
\* which the module never imports (it imports only dataclass and field), so
\* every call raises NameError.
get_scheduler_stats(active, tm, usage) == [raised |-> "NameError"]

\* -------------------------------------------------------------- AutoScaler
\* the scale factor of _evaluate_scaling as a fraction num/den: every rule
\* multiplies by scale_up_factor 1.5 = 15/10 or scale_down_factor 0.8 = 8/10
ScaleFactor(stats) ==
    LET cpu == IF stats.system_usage.cpu_percent > 70 THEN 15
               ELSE IF stats.system_usage.cpu_percent < 20 THEN 8 ELSE 10
        mem == IF stats.system_usage.memory_mb > 75 * 1000 THEN 15
               ELSE IF stats.system_usage.memory_mb < 25 * 1000 THEN 8 ELSE 10
        que == IF stats.queue_stats.total > 10 THEN 15 ELSE 10
    IN  [num |-> cpu * mem * que, den |-> 1000]

\* an evaluation that resets the cap to min_concurrent before it reads the
\* statistics
evaluate_scaling_reset_first(cap, stats) ==
    [raised |-> stats.raised /= "no",
     cap |-> adjust_concurrency(min_concurrent), adjusted |-> TRUE]

\* AutoScaler._evaluate_scaling: whether it raised, the cap afterwards and
\* whether adjust_concurrency was called
evaluate_scaling(cap, stats) ==
    IF stats.raised /= "no"
    THEN [raised |-> TRUE, cap |-> cap, adjusted |-> FALSE]
    ELSE LET f == ScaleFactor(stats)
             new_max == Max(min_concurrent,
                            Min((cap * f.num) \div f.den, max_concurrent))
         IN  IF new_max /= cap
             THEN [raised |-> FALSE, cap |-> adjust_concurrency(new_max),
                   adjusted |-> TRUE]
             ELSE [raised |-> FALSE, cap |-> cap, adjusted |-> FALSE]

\* ------------------------------------------------------------------ state
EmptyMap == [i \in {} |-> None]

\* identifiers waiting in some priority queue
QueuedIds ==
    UNION {{queues[p][i].task_id : i \in 1..Len(queues[p])} : p \in Priority}

\* ------------------------------------------------------------------ locks
\* the threads of the program: the four periodic loops, a pool worker and
\* a caller of the public methods
Threads == {"scheduling", "worker", "scaling", "sampling", "maintenance",
            "caller"}

\* ResourceScheduler._lock, TaskQueue._lock, ResourceMonitor._lock,
\* CacheOptimizer._lock, HotspotDetector._lock, MetricsCollector.buffer_lock
Locks == {"scheduler", "queue", "monitor", "optimizer", "detector", "buffer"}

\* the locks created with threading.RLock(); the others are threading.Lock()
Reentrant == {"scheduler", "queue", "optimizer", "detector"}

\* `with lock: body` as lock steps
With(lock, body) == <<<<"acquire", lock>>>> \o body \o <<<<"release", lock>>>>

\* the lock steps of the methods, in program order
record_metric_locks == With("buffer", <<>>)
add_task_locks == With("queue", <<>>)
get_next_task_locks == With("queue", <<>>)
mark_completed_locks == With("queue", <<>>)
get_queue_stats_locks == With("queue", <<>>)
get_available_resources_locks == With("monitor", <<>>)
monitoring_loop_locks == With("monitor", <<>>)
execute_task_locks == With("scheduler", <<>>)

\* one pass of _scheduling_loop: get_next_task, can_execute_task,
\* _execute_task
scheduling_loop_locks ==
    get_next_task_locks \o get_available_resources_locks \o execute_task_locks

\* a run_task whose finally block takes the queue lock before the
\* scheduler lock
run_task_locks_queue_first ==
    With("queue", With("scheduler", <<>>)) \o record_metric_locks

\* run_task: the finally block, then the exit of tracker.track_operation
run_task_locks ==
    With("scheduler", mark_completed_locks) \o record_metric_locks

\* get_scheduler_stats: the queue statistics and the available resources
\* are read under the scheduler lock
get_scheduler_stats_locks ==
    With("scheduler", get_queue_stats_locks \o get_available_resources_locks)

adjust_concurrency_locks == With("scheduler", <<>>)

\* one pass of _cleanup_loop: _evict_expired, then _evict_lru
cleanup_loop_locks == With("optimizer", <<>>) \o With("optimizer", <<>>)

\* CacheOptimizer.get on a stored key: record_access under the optimizer
\* lock
optimizer_get_locks ==
    With("optimizer", With("detector", <<>>)) \o record_metric_locks

\* CacheOptimizer.set: is_hotspot, then _evict_lru, under the optimizer lock
optimizer_set_locks ==
    With("optimizer", With("detector", <<>>) \o With("optimizer", <<>>))
        \o record_metric_locks

\* what each thread calls
ThreadCalls(thread) ==
    CASE thread = "scheduling" -> {scheduling_loop_locks}
      [] thread = "worker" -> {run_task_locks}
      [] thread = "scaling" -> {get_scheduler_stats_locks}
      [] thread = "sampling" -> {monitoring_loop_locks}
      [] thread = "maintenance" -> {cleanup_loop_locks}
      [] thread = "caller" -> {add_task_locks, optimizer_get_locks,
                               optimizer_set_locks, get_scheduler_stats_locks,
                               adjust_concurrency_locks}

\* CacheOptimizer.max_size
OptimizerMaxSize == 1

\* CacheMetrics()
NoMetrics == [hits |-> 0, misses |-> 0, evictions |-> 0, total_requests |-> 0]

\* the state after CacheOptimizer(cache, max_size=size)
OptimizerConstructed(size) ==
    /\ max_size = size
    /\ cache_data = <<>>
    /\ access_patterns = EmptyMap
    /\ access_log = <<>>
    /\ hotspots = {}
    /\ metrics = NoMetrics
    /\ optimizer_running = FALSE

\* the state after IntelligentCache(): the three tiers are empty and the
\* Local tier's cleanup thread runs
CachesConstructed ==
    /\ now = 0
    /\ data = EmptyMap
    /\ metadata = <<>>
    /\ total_size = 0
    /\ cleanup_alive = TRUE
    /\ redis_store = EmptyMap
    /\ disk_files = EmptyMap
    /\ disk_metadata = EmptyMap
    /\ last_set = EmptyMap
    /\ redis_up = TRUE
    /\ disk_up = TRUE

\* the state after ResourceScheduler(max_concurrent_tasks=cap),
\* AutoScaler(scheduler), IntelligentCache() and
\* CacheOptimizer(cache, max_size=size)
ConstructedWith(cap, size) ==
    /\ CachesConstructed
    /\ OptimizerConstructed(size)
    /\ queues = [p \in Priority |-> <<>>]
    /\ task_map = {}
    /\ completed_tasks = {}
    /\ active_tasks = EmptyMap
    /\ max_concurrent_tasks = cap
    /\ executor = cap
    /\ is_running = FALSE
    /\ current_usage = InitialUsage
    /\ is_monitoring = FALSE
    /\ scaling_result = "none"
    /\ executor_shutdown = FALSE
    /\ work_items = {}
    /\ lock_held = [t \in Threads |-> <<>>]
    /\ lock_todo = [t \in Threads |-> <<>>]

Constructed(cap) == ConstructedWith(cap, OptimizerMaxSize)

Init == \E cap \in 1..MaxInitCap : Constructed(cap)

\* ResourceScheduler.start
Start ==
    /\ ~is_running
    /\ is_running' = TRUE
    /\ UNCHANGED <<cacheVars, optimizerVars, lockVars, poolVars,
                   queues, task_map, completed_tasks, active_tasks,
                   max_concurrent_tasks, executor, current_usage,
                   is_monitoring, scaling_result>>

\* ResourceScheduler.stop: the loops end and the executor is shut down;
\* the work items it holds still run
Stop ==
    /\ is_running' = FALSE
    /\ executor_shutdown' = TRUE
    /\ UNCHANGED <<cacheVars, optimizerVars, lockVars, work_items,
                   queues, task_map, completed_tasks, active_tasks,
                   max_concurrent_tasks, executor, current_usage,
                   is_monitoring, scaling_result>>

\* ResourceScheduler.submit_task(task): the queue afterwards and what the
\* call raised ("no": it returned task.task_id)
submit_task(q, tm, task) ==
    LET r == add_task(q, tm, task)
    IN  [raised |-> IF r.ok THEN "no" ELSE "ValueError",
         queues |-> r.queues, task_map |-> r.task_map]

\* a client calls submit_task(task)
SubmitTask(task) ==
    LET r == submit_task(queues, task_map, task)
    IN  /\ queues' = r.queues
        /\ task_map' = r.task_map
        /\ UNCHANGED <<cacheVars, optimizerVars, lockVars, poolVars,
                       completed_tasks, active_tasks, max_concurrent_tasks,
                       executor, is_running, current_usage, is_monitoring,
                       scaling_result>>

\* one pass of the body of ResourceScheduler._scheduling_loop
SchedulingTick ==
    /\ is_running
    /\ LET r == get_next_task(queues, completed_tasks)
       IN  /\ queues' = r.queues
           /\ IF r.task /= None
                 /\ can_execute_task(r.task, active_tasks,
                                     max_concurrent_tasks, current_usage)
              THEN \* _execute_task: self.active_tasks[task.task_id] = task,
                   \* then executor.submit(run_task), which raises
                   \* RuntimeError on an executor that was shut down; the
                   \* loop catches and logs it
                   /\ active_tasks' =
                          [i \in DOMAIN active_tasks \cup {r.task.task_id} |->
                             IF i = r.task.task_id THEN r.task
                             ELSE active_tasks[i]]
                   /\ work_items' = IF executor_shutdown THEN work_items
                                     ELSE work_items \cup {r.task.task_id}
              ELSE UNCHANGED <<active_tasks, work_items>>
    /\ UNCHANGED <<cacheVars, optimizerVars, lockVars, executor_shutdown,
                   task_map, completed_tasks, max_concurrent_tasks, executor,
                   is_running, current_usage, is_monitoring, scaling_result>>

\* run_task with the bookkeeping after the callback instead of in a finally
\* block: a callback that raises skips mark_completed
TaskFinishedWithoutFinally(id, raised) ==
    /\ id \in work_items
    /\ work_items' = work_items \ {id}
    /\ active_tasks' = [i \in DOMAIN active_tasks \ {id} |-> active_tasks[i]]
    /\ completed_tasks' = IF raised THEN completed_tasks
                          ELSE completed_tasks \cup {id}
    /\ task_map' = IF raised THEN task_map ELSE mark_completed(task_map, id)
    /\ UNCHANGED <<cacheVars, optimizerVars, lockVars, executor_shutdown,
                   queues, max_concurrent_tasks, executor, is_running,
                   current_usage, is_monitoring, scaling_result>>

\* run_task of _execute_task finishing for task id: the callback returned
\* (raised = FALSE) or raised; either way the finally block runs
TaskFinished(id, raised) ==
    /\ id \in work_items
    /\ work_items' = work_items \ {id}
    /\ active_tasks' = [i \in DOMAIN active_tasks \ {id} |-> active_tasks[i]]
    /\ completed_tasks' = completed_tasks \cup {id}
    /\ task_map' = mark_completed(task_map, id)
    /\ UNCHANGED <<cacheVars, optimizerVars, lockVars, executor_shutdown,
                   queues, max_concurrent_tasks, executor, is_running,
                   current_usage, is_monitoring, scaling_result>>

\* ResourceScheduler.adjust_concurrency(new_max), called by a client
AdjustConcurrency(new_max) ==
    /\ max_concurrent_tasks' = adjust_concurrency(new_max)
    /\ executor' = max_concurrent_tasks'
    /\ executor_shutdown' = FALSE
    /\ UNCHANGED <<cacheVars, optimizerVars, lockVars, work_items,
                   queues, task_map, completed_tasks, active_tasks,
                   is_running, current_usage, is_monitoring, scaling_result>>

\* one pass of ResourceMonitor._monitoring_loop storing a sample
MonitorSample(usage) ==
    /\ is_running
    /\ current_usage' = usage
    /\ UNCHANGED <<cacheVars, optimizerVars, lockVars, poolVars,
                   queues, task_map, completed_tasks, active_tasks,
                   max_concurrent_tasks, executor, is_running, is_monitoring,
                   scaling_result>>

\* AutoScaler.start_monitoring
StartMonitoring ==
    /\ ~is_monitoring
    /\ is_monitoring' = TRUE
    /\ UNCHANGED <<cacheVars, optimizerVars, lockVars, poolVars,
                   queues, task_map, completed_tasks, active_tasks,
                   max_concurrent_tasks, executor, is_running, current_usage,
                   scaling_result>>

\* one pass of AutoScaler._scaling_loop: _evaluate_scaling, with an
\* exception caught and logged by the loop, which then goes on
EvaluateScaling ==
    /\ is_monitoring
    /\ LET r == evaluate_scaling(
                    max_concurrent_tasks,
                    get_scheduler_stats(active_tasks, task_map, current_usage))
       IN  /\ max_concurrent_tasks' = r.cap
           /\ executor' = IF r.adjusted THEN r.cap ELSE executor
           /\ executor_shutdown' = IF r.adjusted THEN FALSE
                                   ELSE executor_shutdown
           /\ scaling_result' = IF r.raised THEN "error" ELSE "ok"
    /\ UNCHANGED <<cacheVars, optimizerVars, lockVars, work_items,
                   queues, task_map, completed_tasks, active_tasks,
                   is_running, current_usage, is_monitoring>>

\* arguments a client passes to adjust_concurrency
ConcurrencyArguments == 0..MaxInitCap

\* the scheduler and its clients, with tasks of every submittable shape, on
\* a machine whose usage stays as it is before the first sample
Next ==
    \/ Start
    \/ \E task \in SubmittableTasks : SubmitTask(task)
    \/ SchedulingTick
    \/ \E id \in Ids, raised \in BOOLEAN : TaskFinished(id, raised)
    \/ \E new_max \in ConcurrencyArguments : AdjustConcurrency(new_max)

Spec == Init /\ [][Next]_vars

\* the tasks submitted while the auto-scaler is watched: no dependencies,
\* NORMAL priority
PlainTasks == {t \in SubmittableTasks : t.dependencies = {} /\ t.priority = NORMAL}

\* the scheduler, its clients, the resource monitor and the auto-scaler
ScalerNext ==
    \/ Start
    \/ \E task \in PlainTasks : SubmitTask(task)
    \/ SchedulingTick
    \/ \E id \in Ids, raised \in BOOLEAN : TaskFinished(id, raised)
    \/ \E new_max \in ConcurrencyArguments : AdjustConcurrency(new_max)
    \/ \E usage \in UsageSamples : MonitorSample(usage)
    \/ StartMonitoring
    \/ EvaluateScaling

ScalerSpec == Init /\ [][ScalerNext]_vars

\* the scheduler constructed with room for every task, on an idle machine
\* whose usage is never sampled: admission is always possible
AdmitInit == Constructed(NumTasks)

AdmitNext ==
    \/ Start
    \/ \E task \in SubmittableTasks : SubmitTask(task)
    \/ SchedulingTick
    \/ \E id \in Ids, raised \in BOOLEAN : TaskFinished(id, raised)

\* the scheduling loop runs forever once started, and callbacks terminate
AdmitSpec ==
    /\ AdmitInit
    /\ [][AdmitNext]_vars
    /\ WF_vars(Start)
    /\ WF_vars(SchedulingTick)
    /\ \A id \in Ids : WF_vars(\E raised \in BOOLEAN : TaskFinished(id, raised))

\* the scheduler stopped and started again while tasks are submitted,
\* dispatched and finished and the cap is adjusted
RestartNext ==
    \/ Start
    \/ Stop
    \/ \E task \in PlainTasks : SubmitTask(task)
    \/ SchedulingTick
    \/ \E id \in Ids, raised \in BOOLEAN : TaskFinished(id, raised)
    \/ \E new_max \in ConcurrencyArguments : AdjustConcurrency(new_max)

\* callbacks terminate: the run_task an executor accepted finishes
RestartSpec ==
    /\ Init
    /\ [][RestartNext]_vars
    /\ \A id \in Ids : WF_vars(\E raised \in BOOLEAN : TaskFinished(id, raised))

\* ------------------------------------------------------- the lock steps
\* the thread that holds the lock, or "nobody"
Holder(lock) ==
    IF \E t \in Threads : \E i \in 1..Len(lock_held[t]) : lock_held[t][i] = lock
    THEN CHOOSE t \in Threads :
             \E i \in 1..Len(lock_held[t]) : lock_held[t][i] = lock
    ELSE "nobody"

\* acquire() returns at once: the lock is free, or it is an RLock the
\* thread holds already
CanAcquire(thread, lock) ==
    \/ Holder(lock) = "nobody"
    \/ Holder(lock) = thread /\ lock \in Reentrant

\* a thread enters one of its calls
BeginCall(thread, steps) ==
    /\ lock_todo[thread] = <<>>
    /\ lock_todo' = [lock_todo EXCEPT ![thread] = steps]
    /\ UNCHANGED <<schedVars, cacheVars, optimizerVars, lock_held>>

\* a thread takes the next lock step of its call
LockStep(thread) ==
    /\ lock_todo[thread] /= <<>>
    /\ LET step == Head(lock_todo[thread])
       IN  IF step[1] = "acquire"
           THEN /\ CanAcquire(thread, step[2])
                /\ lock_held' = [lock_held EXCEPT ![thread] = Append(@, step[2])]
           ELSE lock_held' = [lock_held EXCEPT
                                 ![thread] = SubSeq(@, 1, Len(@) - 1)]
    /\ lock_todo' = [lock_todo EXCEPT ![thread] = Tail(@)]
    /\ UNCHANGED <<schedVars, cacheVars, optimizerVars>>

LockNext ==
    \/ \E thread \in Threads :
          \E steps \in ThreadCalls(thread) : BeginCall(thread, steps)
    \/ \E thread \in Threads : LockStep(thread)

LockSpec == Constructed(1) /\ [][LockNext]_vars

\* ============================================================ cache tiers
\* (optimized_modules/intelligent_cache.py).  Time is counted in clock
\* ticks of one second; sizes are counted in units of one small pickled
\* value, so a Local tier of budget 2 holds two small entries.

\* the clock runs from 0 to MaxTime
MaxTime == 2

\* LocalCache.max_size_bytes
LocalBudget == 2

\* LocalCache.default_ttl, IntelligentCache.default_ttl
default_ttl == 3600

\* the value of a missing key
CacheNone == "None"

CacheKeys == {"a", "b", "c"}

\* values a caller stores: a small one and one larger than the budget
CacheValues == {"v", "big"}

\* ttl arguments: 0 is the omitted (None) ttl
TtlArguments == {0, 1}

\* tags arguments
TagArguments == {{}}

\* LocalCache._get_size: the length of the pickled value
get_size(value) == IF value = "big" THEN LocalBudget + 1 ELSE 1

\* a LocalCache as a value: its data, metadata and total_size
LocalCacheOf(d, md, ts) == [data |-> d, metadata |-> md, total_size |-> ts]

MetaIndex(md, key) == CHOOSE i \in 1..Len(md) : md[i].key = key

\* self.metadata[key]
MetaOf(md, key) == md[MetaIndex(md, key)]

\* del d[key]
DictDel(d, key) == [k \in DOMAIN d \ {key} |-> d[k]]

\* d[key] = value
DictPut(d, key, value) ==
    [k \in DOMAIN d \cup {key} |-> IF k = key THEN value ELSE d[k]]

\* the ttl test of LocalCache.get and LocalCache._cleanup
LocalExpired(meta, t) == meta.ttl /= 0 /\ t - meta.created_at > meta.ttl

\* a removal that leaves total_size as it was
LocalCache_remove_key_keeping_size(L, key) ==
    IF key \in DOMAIN L.data
    THEN LocalCacheOf(DictDel(L.data, key),
                      SelectSeq(L.metadata, LAMBDA m : m.key /= key),
                      L.total_size)
    ELSE L

\* LocalCache._remove_key
LocalCache_remove_key(L, key) ==
    IF key \in DOMAIN L.data
    THEN LocalCacheOf(DictDel(L.data, key),
                      SelectSeq(L.metadata, LAMBDA m : m.key /= key),
                      L.total_size - MetaOf(L.metadata, key).size)
    ELSE L

\* a get that leaves expired entries to the cleanup pass
LocalCache_get_without_ttl_check(L, key, t) ==
    IF key \notin DOMAIN L.data
    THEN [cache |-> L, value |-> CacheNone]
    ELSE LET i == MetaIndex(L.metadata, key)
             meta == L.metadata[i]
         IN  [cache |-> [L EXCEPT !.metadata[i] =
                            [meta EXCEPT !.accessed_at = t,
                                         !.access_count = @ + 1]],
              value |-> L.data[key]]

\* LocalCache.get at time t: the cache afterwards and the returned value
LocalCache_get(L, key, t) ==
    IF key \notin DOMAIN L.data
    THEN [cache |-> L, value |-> CacheNone]
    ELSE IF LocalExpired(MetaOf(L.metadata, key), t)
         THEN [cache |-> LocalCache_remove_key(L, key), value |-> CacheNone]
         ELSE LET i == MetaIndex(L.metadata, key)
                  meta == L.metadata[i]
              IN  [cache |-> [L EXCEPT !.metadata[i] =
                                 [meta EXCEPT !.accessed_at = t,
                                              !.access_count = @ + 1]],
                   value |-> L.data[key]]

\* the last entry in dict order among those of greatest accessed_at
NewestKey(md) ==
    LET i == CHOOSE i \in 1..Len(md) :
                 \A j \in 1..Len(md) :
                     \/ md[i].accessed_at > md[j].accessed_at
                     \/ md[i].accessed_at = md[j].accessed_at /\ i >= j
    IN  md[i].key

\* min(self.metadata.items(), key=lambda x: x[1].accessed_at)[0]: the
\* first entry in dict order among those of least accessed_at
OldestKey(md) ==
    LET i == CHOOSE i \in 1..Len(md) :
                 \A j \in 1..Len(md) :
                     \/ md[i].accessed_at < md[j].accessed_at
                     \/ md[i].accessed_at = md[j].accessed_at /\ i <= j
    IN  md[i].key

\* the while loop of LocalCache.set
RECURSIVE MakeRoom(_, _)
MakeRoom(L, size) ==
    IF L.total_size + size > LocalBudget /\ DOMAIN L.data /= {}
    THEN MakeRoom(LocalCache_remove_key(L, OldestKey(L.metadata)), size)
    ELSE L

\* a set that stores nothing when the value is larger than the budget
LocalCache_set_if_fits(L, key, value, ttl, tags, t) ==
    LET size == get_size(value)
        room == MakeRoom(LocalCache_remove_key(L, key), size)
        meta == [key |-> key, size |-> size, created_at |-> t,
                 accessed_at |-> t, access_count |-> 1,
                 ttl |-> IF ttl /= 0 THEN ttl ELSE default_ttl,
                 tags |-> tags]
    IN  IF room.total_size + size > LocalBudget
        THEN room
        ELSE LocalCacheOf(DictPut(room.data, key, value),
                          Append(room.metadata, meta),
                          room.total_size + size)

\* LocalCache.set at time t
LocalCache_set(L, key, value, ttl, tags, t) ==
    LET size == get_size(value)
        room == MakeRoom(LocalCache_remove_key(L, key), size)
        meta == [key |-> key, size |-> size, created_at |-> t,
                 accessed_at |-> t, access_count |-> 1,
                 ttl |-> IF ttl /= 0 THEN ttl ELSE default_ttl,
                 tags |-> tags]
    IN  LocalCacheOf(DictPut(room.data, key, value),
                     Append(room.metadata, meta),
                     room.total_size + size)

\* LocalCache.delete
LocalCache_delete(L, key) ==
    [cache |-> LocalCache_remove_key(L, key),
     value |-> key \in DOMAIN L.data]

RECURSIVE RemoveKeys(_, _)
RemoveKeys(L, keys) ==
    IF keys = {}
    THEN L
    ELSE LET key == CHOOSE k \in keys : TRUE
         IN  RemoveKeys(LocalCache_remove_key(L, key), keys \ {key})

\* LocalCache._cleanup at time t.  Over budget, the sort key reads
\* x[1].access_at, which CacheMetadata does not have: sorted() raises
\* AttributeError on the first entry, before any key is removed.
LocalCache_cleanup(L, t) ==
    LET expired == {L.metadata[i].key : i \in
                       {j \in 1..Len(L.metadata) : LocalExpired(L.metadata[j], t)}}
    IN  IF L.total_size > LocalBudget /\ L.metadata /= <<>>
        THEN [cache |-> L, raised |-> "AttributeError"]
        ELSE [cache |-> RemoveKeys(L, expired), raised |-> "none"]

\* pickle.dumps and pickle.loads
pickle_dumps(value) == <<"pickle", value>>
pickle_loads(bytes) == bytes[2]

\* RedisCache.default_ttl
redis_default_ttl == 3600

\* the exception a client call raises while the server does not answer
ConnectionError == "ConnectionError"

\* a get without the try/except: the error of the client reaches the caller
RedisCache_get_unguarded(R, key, t) ==
    IF ~redis_up
    THEN ConnectionError
    ELSE IF key \in DOMAIN R /\ t < R[key].expire_at
         THEN pickle_loads(R[key].value)
         ELSE CacheNone

\* RedisCache.get at time t on the Redis keys R: a key is gone once its
\* expiry time is reached; while the server does not answer the client
\* raises, and the except branch returns None
RedisCache_get(R, key, t) ==
    IF ~redis_up
    THEN CacheNone
    ELSE IF key \in DOMAIN R /\ t < R[key].expire_at
         THEN pickle_loads(R[key].value)
         ELSE CacheNone

\* RedisCache.set at time t: the Redis keys afterwards; the except branch
\* logs and returns
RedisCache_set(R, key, value, ttl, t) ==
    IF ~redis_up
    THEN R
    ELSE DictPut(R, key,
                 [value |-> pickle_dumps(value),
                  expire_at |-> t + (IF ttl /= 0 THEN ttl
                                     ELSE redis_default_ttl)])

\* RedisCache.delete: the Redis keys afterwards and the returned flag
RedisCache_delete(R, key, t) ==
    IF ~redis_up
    THEN [store |-> R, value |-> FALSE]
    ELSE [store |-> DictDel(R, key),
          value |-> key \in DOMAIN R /\ t < R[key].expire_at]

\* a key a caller chose with the prefix of the Redis names in it
PrefixedKey == "capcut:cache:x"

\* a key name as its colon-separated segments; of the keys of the model
\* only PrefixedKey holds a colon
Segments(key) ==
    IF key = PrefixedKey THEN <<"capcut", "cache", "x">> ELSE <<key>>

\* RedisCache._make_key: f"capcut:cache:{key}"
make_key(segments) == <<"capcut", "cache">> \o segments

\* KEYS with a glob pattern that ends in "*": the names that begin with
\* the segments before the star
GlobMatches(pattern, name) ==
    LET prefix == SubSeq(pattern, 1, Len(pattern) - 1)
    IN  /\ pattern[Len(pattern)] = "*"
        /\ Len(name) >= Len(prefix)
        /\ SubSeq(name, 1, Len(prefix)) = prefix

\* RedisCache.delete_by_pattern: the Redis keys afterwards and the number
\* of keys deleted
RedisCache_delete_by_pattern(R, pattern, t) ==
    LET live == {k \in DOMAIN R : t < R[k].expire_at}
        keys == {k \in live :
                    GlobMatches(make_key(pattern), make_key(Segments(k)))}
    IN  IF ~redis_up
        THEN [store |-> R, value |-> 0]
        ELSE [store |-> [k \in DOMAIN R \ keys |-> R[k]],
              value |-> Cardinality(keys)]

\* the keys Redis holds at time t
RedisExpire(R, t) == [k \in {j \in DOMAIN R : t < R[j].expire_at} |-> R[k]]

\* DiskCache.max_size_bytes (10 GB), in the size unit of LocalBudget
DiskBudget == 204

\* a DiskCache as a value: its files and its metadata
DiskCacheOf(f, md) == [files |-> f, metadata |-> md]

\* the ttl test of DiskCache.get and DiskCache._cleanup
DiskExpired(D, key, t) ==
    /\ key \in DOMAIN D.metadata
    /\ D.metadata[key].ttl /= 0
    /\ t - D.metadata[key].created_at > D.metadata[key].ttl

DiskUnlink(D, keys) ==
    DiskCacheOf([k \in DOMAIN D.files \ keys |-> D.files[k]],
                [k \in DOMAIN D.metadata \ keys |-> D.metadata[k]])

RECURSIVE DiskTotal(_, _)
DiskTotal(D, keys) ==
    IF keys = {}
    THEN 0
    ELSE LET key == CHOOSE k \in keys : TRUE
         IN  D.metadata[key].size + DiskTotal(D, keys \ {key})

\* the over-budget loop of DiskCache._cleanup: files leave oldest first
RECURSIVE DiskRemoveOldest(_, _, _)
DiskRemoveOldest(D, candidates, total) ==
    IF candidates = {} \/ 5 * total <= 4 * DiskBudget
    THEN D
    ELSE LET key == CHOOSE k \in candidates :
                        \A j \in candidates :
                            D.metadata[k].created_at <= D.metadata[j].created_at
         IN  DiskRemoveOldest(DiskUnlink(D, {key}), candidates \ {key},
                              total - D.metadata[key].size)

\* DiskCache._cleanup at time t
DiskCache_cleanup(D, t) ==
    LET expired == {k \in DOMAIN D.files : DiskExpired(D, k, t)}
        known == DOMAIN D.files \cap DOMAIN D.metadata
        total == DiskTotal(D, known)
        kept == IF total > DiskBudget
                THEN DiskRemoveOldest(D, known, total)
                ELSE D
    IN  DiskUnlink(kept, expired)

\* DiskCache.get at time t: the cache afterwards and the returned value
DiskCache_get(D, key, t) ==
    IF ~disk_up \/ key \notin DOMAIN D.files
    THEN [cache |-> D, value |-> CacheNone]
    ELSE IF DiskExpired(D, key, t)
         THEN [cache |-> DiskUnlink(D, {key}), value |-> CacheNone]
         ELSE [cache |-> D, value |-> pickle_loads(D.files[key])]

\* DiskCache.set at time t
DiskCache_set(D, key, value, ttl, t) ==
    IF ~disk_up
    THEN D
    ELSE DiskCache_cleanup(
             DiskCacheOf(DictPut(D.files, key, pickle_dumps(value)),
                         DictPut(D.metadata, key,
                                 [size |-> get_size(value), created_at |-> t,
                                  ttl |-> ttl])),
             t)

\* ------------------------------------------------------- IntelligentCache
Levels == {"all", "local", "redis", "disk"}

\* an IntelligentCache as a value: its three tiers
TiersOf(L, R, D) == [local |-> L, redis |-> R, disk |-> D]

\* a get that copies a Disk hit into the Local tier only
IntelligentCache_get_without_redis_copy(C, key, level, t) ==
    LET l == IF level \in {"all", "local"}
             THEN LocalCache_get(C.local, key, t)
             ELSE [cache |-> C.local, value |-> CacheNone]
        r == IF level \in {"all", "redis"}
             THEN RedisCache_get(C.redis, key, t)
             ELSE CacheNone
        d == IF level \in {"all", "disk"}
             THEN DiskCache_get(C.disk, key, t)
             ELSE [cache |-> C.disk, value |-> CacheNone]
    IN  IF l.value /= CacheNone
        THEN [cache |-> TiersOf(l.cache, C.redis, C.disk), value |-> l.value]
        ELSE IF r /= CacheNone
        THEN [cache |-> TiersOf(LocalCache_set(l.cache, key, r, 0, {}, t),
                                C.redis, C.disk),
              value |-> r]
        ELSE IF d.value /= CacheNone
        THEN [cache |-> TiersOf(LocalCache_set(l.cache, key, d.value, 0, {}, t),
                                C.redis, d.cache),
              value |-> d.value]
        ELSE [cache |-> TiersOf(l.cache, C.redis, d.cache), value |-> CacheNone]

\* IntelligentCache.get at time t: the tiers afterwards and the returned
\* value
IntelligentCache_get(C, key, level, t) ==
    LET l == IF level \in {"all", "local"}
             THEN LocalCache_get(C.local, key, t)
             ELSE [cache |-> C.local, value |-> CacheNone]
        r == IF level \in {"all", "redis"}
             THEN RedisCache_get(C.redis, key, t)
             ELSE CacheNone
        d == IF level \in {"all", "disk"}
             THEN DiskCache_get(C.disk, key, t)
             ELSE [cache |-> C.disk, value |-> CacheNone]
    IN  IF l.value /= CacheNone
        THEN [cache |-> TiersOf(l.cache, C.redis, C.disk), value |-> l.value]
        ELSE IF r /= CacheNone
        THEN [cache |-> TiersOf(LocalCache_set(l.cache, key, r, 0, {}, t),
                                C.redis, C.disk),
              value |-> r]
        ELSE IF d.value /= CacheNone
        THEN [cache |-> TiersOf(LocalCache_set(l.cache, key, d.value, 0, {}, t),
                                RedisCache_set(C.redis, key, d.value, 0, t),
                                d.cache),
              value |-> d.value]
        ELSE [cache |-> TiersOf(l.cache, C.redis, d.cache), value |-> CacheNone]

\* IntelligentCache.set at time t: the tiers afterwards
IntelligentCache_set(C, key, value, ttl, tags, level, t) ==
    LET eff == IF ttl /= 0 THEN ttl ELSE default_ttl
    IN  TiersOf(IF level \in {"all", "local"}
                THEN LocalCache_set(C.local, key, value, eff, tags, t)
                ELSE C.local,
                IF level \in {"all", "redis"}
                THEN RedisCache_set(C.redis, key, value, eff, t)
                ELSE C.redis,
                IF level \in {"all", "disk"}
                THEN DiskCache_set(C.disk, key, value, eff, t)
                ELSE C.disk)

\* LocalCache.delete_by_tags: the cache afterwards and the number of keys
\* removed
LocalCache_delete_by_tags(L, tags) ==
    LET keys_to_remove == {L.metadata[i].key : i \in
                              {j \in 1..Len(L.metadata) :
                                  L.metadata[j].tags \cap tags /= {}}}
    IN  [cache |-> RemoveKeys(L, keys_to_remove),
         value |-> Cardinality(keys_to_remove)]

\* IntelligentCache.delete at time t: the tiers afterwards and the returned
\* flag.  The Disk tier is written with set(key, None, 0).
IntelligentCache_delete(C, key, level, t) ==
    LET l == IF level \in {"all", "local"}
             THEN LocalCache_delete(C.local, key)
             ELSE [cache |-> C.local, value |-> TRUE]
        r == IF level \in {"all", "redis"}
             THEN RedisCache_delete(C.redis, key, t)
             ELSE [store |-> C.redis, value |-> TRUE]
        d == IF level \in {"all", "disk"}
             THEN DiskCache_set(C.disk, key, CacheNone, 0, t)
             ELSE C.disk
    IN  [cache |-> TiersOf(l.cache, r.store, d),
         value |-> l.value /\ r.value]

\* pattern = "capcut:cache:*" in IntelligentCache.delete_by_tags
TagPattern == <<"capcut", "cache", "*">>

\* IntelligentCache.delete_by_tags at time t: the tiers afterwards and the
\* returned count.  The Disk branch is `pass`.
IntelligentCache_delete_by_tags(C, tags, level, t) ==
    LET l == IF level \in {"all", "local"}
             THEN LocalCache_delete_by_tags(C.local, tags)
             ELSE [cache |-> C.local, value |-> 0]
        r == IF level \in {"all", "redis"}
             THEN RedisCache_delete_by_pattern(C.redis, TagPattern, t)
             ELSE [store |-> C.redis, value |-> 0]
    IN  [cache |-> TiersOf(l.cache, r.store, C.disk),
         value |-> l.value + r.value]

\* ------------------------------------------------ actions on the caches
\* a get that hits raises access_count, up to MaxAccessCount
MaxAccessCount == 2

Local == LocalCacheOf(data, metadata, total_size)

Tiers == TiersOf(Local, redis_store, DiskCacheOf(disk_files, disk_metadata))

SetLocal(L) ==
    /\ data' = L.data
    /\ metadata' = L.metadata
    /\ total_size' = L.total_size

SetTiers(C) ==
    /\ SetLocal(C.local)
    /\ redis_store' = C.redis
    /\ disk_files' = C.disk.files
    /\ disk_metadata' = C.disk.metadata

\* the ttl a set call asks for: LocalCache.set and IntelligentCache.set
\* replace an omitted ttl by default_ttl
EffectiveTtl(ttl) == IF ttl /= 0 THEN ttl ELSE default_ttl

\* no hit may raise an access_count beyond MaxAccessCount
CountsBelowBound(key) ==
    key \in DOMAIN data => MetaOf(metadata, key).access_count < MaxAccessCount

\* one second passes; Redis drops the keys whose expiry time is reached
Tick ==
    /\ now < MaxTime
    /\ now' = now + 1
    /\ redis_store' = RedisExpire(redis_store, now + 1)
    /\ UNCHANGED <<schedVars, lockVars, optimizerVars, tierHealth,
                   data, metadata, total_size, cleanup_alive,
                   disk_files, disk_metadata, last_set>>

\* a call of LocalCache.set
LocalSet(key, value, ttl, tags) ==
    /\ SetLocal(LocalCache_set(Local, key, value, ttl, tags, now))
    /\ last_set' = DictPut(last_set, key,
                           [at |-> now, ttl |-> EffectiveTtl(ttl),
                            tags |-> tags])
    /\ UNCHANGED <<schedVars, lockVars, optimizerVars, tierHealth,
                   now, cleanup_alive, redis_store, disk_files,
                   disk_metadata>>

\* a call of LocalCache.get
LocalGet(key) ==
    /\ CountsBelowBound(key)
    /\ SetLocal(LocalCache_get(Local, key, now).cache)
    /\ UNCHANGED <<schedVars, lockVars, optimizerVars, tierHealth,
                   now, cleanup_alive, redis_store, disk_files,
                   disk_metadata, last_set>>

\* a call of LocalCache.delete
LocalDelete(key) ==
    /\ SetLocal(LocalCache_delete(Local, key).cache)
    /\ last_set' = DictDel(last_set, key)
    /\ UNCHANGED <<schedVars, lockVars, optimizerVars, tierHealth,
                   now, cleanup_alive, redis_store, disk_files,
                   disk_metadata>>

\* one round of LocalCache._cleanup_worker: the thread calls _cleanup and
\* ends when the call raises
CleanupPass ==
    /\ cleanup_alive
    /\ LET r == LocalCache_cleanup(Local, now)
       IN  /\ SetLocal(r.cache)
           /\ cleanup_alive' = (r.raised = "none")
    /\ UNCHANGED <<schedVars, lockVars, optimizerVars, tierHealth,
                   now, redis_store, disk_files, disk_metadata,
                   last_set>>

\* a call of IntelligentCache.set
CacheSet(key, value, ttl, tags, level) ==
    /\ SetTiers(IntelligentCache_set(Tiers, key, value, ttl, tags, level, now))
    /\ last_set' = DictPut(last_set, key,
                           [at |-> now, ttl |-> EffectiveTtl(ttl),
                            tags |-> tags])
    /\ UNCHANGED <<schedVars, lockVars, optimizerVars, tierHealth, now, cleanup_alive>>

\* a call of IntelligentCache.get
CacheGet(key, level) ==
    /\ CountsBelowBound(key)
    /\ SetTiers(IntelligentCache_get(Tiers, key, level, now).cache)
    /\ UNCHANGED <<schedVars, lockVars, optimizerVars, tierHealth,
                   now, cleanup_alive, last_set>>

\* a call of IntelligentCache.delete
CacheDelete(key, level) ==
    /\ SetTiers(IntelligentCache_delete(Tiers, key, level, now).cache)
    /\ last_set' = DictDel(last_set, key)
    /\ UNCHANGED <<schedVars, lockVars, optimizerVars, tierHealth, now, cleanup_alive>>

\* a call of IntelligentCache.delete_by_tags: the keys set with one of the
\* tags count as deleted
CacheDeleteByTags(tags, level) ==
    /\ SetTiers(IntelligentCache_delete_by_tags(Tiers, tags, level, now).cache)
    /\ last_set' = [k \in {j \in DOMAIN last_set :
                              last_set[j].tags \cap tags = {}} |-> last_set[k]]
    /\ UNCHANGED <<schedVars, lockVars, optimizerVars, tierHealth, now, cleanup_alive>>

\* the Redis server stops answering, or answers again
RedisOutage ==
    /\ redis_up' = ~redis_up
    /\ UNCHANGED <<schedVars, lockVars, optimizerVars, now, data, metadata, total_size,
                   cleanup_alive, redis_store, disk_files, disk_metadata,
                   last_set, disk_up>>

\* the cache directory stops being readable and writable, or is again
DiskOutage ==
    /\ disk_up' = ~disk_up
    /\ UNCHANGED <<schedVars, lockVars, optimizerVars, now, data, metadata, total_size,
                   cleanup_alive, redis_store, disk_files, disk_metadata,
                   last_set, redis_up>>

\* the Local tier on its own
LocalCacheNext ==
    \/ Tick
    \/ \E key \in CacheKeys, value \in CacheValues, ttl \in TtlArguments,
          tags \in TagArguments : LocalSet(key, value, ttl, tags)
    \/ \E key \in CacheKeys : LocalGet(key)
    \/ \E key \in CacheKeys : LocalDelete(key)
    \/ CleanupPass

LocalCacheSpec == Constructed(1) /\ [][LocalCacheNext]_vars

\* a call of LocalCache.delete_by_tags
LocalDeleteByTags(tags) ==
    /\ SetLocal(LocalCache_delete_by_tags(Local, tags).cache)
    /\ last_set' = [k \in {j \in DOMAIN last_set :
                              last_set[j].tags \cap tags = {}} |-> last_set[k]]
    /\ UNCHANGED <<schedVars, lockVars, optimizerVars, tierHealth,
                   now, cleanup_alive, redis_store, disk_files,
                   disk_metadata>>

\* the tags the Local tier is written with and cleared by
LocalTags == {{}, {"t"}}

\* the keys of the tagged entries
TaggedLocalKeys == {"a", "b"}

\* the Local tier with tagged entries and every operation that changes it
TaggedLocalNext ==
    \/ Tick
    \/ \E key \in TaggedLocalKeys, value \in CacheValues,
          ttl \in TtlArguments, tags \in LocalTags :
          LocalSet(key, value, ttl, tags)
    \/ \E key \in TaggedLocalKeys : LocalGet(key)
    \/ \E key \in TaggedLocalKeys : LocalDelete(key)
    \/ LocalDeleteByTags({"t"})
    \/ CleanupPass

TaggedLocalSpec == Constructed(1) /\ [][TaggedLocalNext]_vars

\* the key the tiered cache is read and written with
TieredKeys == {"a"}

\* a second key, written only as a large value to the Local tier: its set
\* evicts the Local copy of the first
FillerKey == "b"

\* the ttl the tiered cache is written with; default_ttl comes in with
\* the entries that get copies into the upper tiers
TieredTtlArguments == {1}

\* the three tiers behind IntelligentCache
TieredNext ==
    \/ Tick
    \/ \E key \in TieredKeys, value \in CacheValues, ttl \in TieredTtlArguments,
          tags \in TagArguments, level \in Levels :
          CacheSet(key, value, ttl, tags, level)
    \/ CacheSet(FillerKey, "big", 0, {}, "local")
    \/ \E key \in TieredKeys, level \in Levels : CacheGet(key, level)
    \/ CleanupPass

TieredSpec == Constructed(1) /\ [][TieredNext]_vars

\* the tags the tiered cache is written with
TieredTags == {{}, {"t"}}

\* the tiered cache with deletion by key and by tag
InvalidateNext ==
    \/ Tick
    \/ \E key \in TieredKeys, ttl \in TieredTtlArguments, tags \in TieredTags,
          level \in Levels : CacheSet(key, "v", ttl, tags, level)
    \/ \E key \in TieredKeys, level \in Levels : CacheGet(key, level)
    \/ \E key \in TieredKeys, level \in Levels : CacheDelete(key, level)
    \/ \E level \in Levels : CacheDeleteByTags({"t"}, level)

InvalidateSpec == Constructed(1) /\ [][InvalidateNext]_vars

\* the tiered cache while the Remote and the Disk tier come and go
OutageNext ==
    \/ Tick
    \/ \E key \in TieredKeys, ttl \in TieredTtlArguments, level \in Levels :
          CacheSet(key, "v", ttl, {}, level)
    \/ \E key \in TieredKeys, level \in Levels : CacheGet(key, level)
    \/ RedisOutage
    \/ DiskOutage

OutageSpec == Constructed(1) /\ [][OutageNext]_vars

\* the keys of the callers of delete_by_tags
TaggedKeys == {"a", PrefixedKey}

\* the tiered cache written on all tiers, with deletion by tag
TagFrameNext ==
    \/ Tick
    \/ \E key \in TaggedKeys, ttl \in TieredTtlArguments, tags \in TieredTags :
          CacheSet(key, "v", ttl, tags, "all")
    \/ \E key \in TaggedKeys, level \in Levels : CacheGet(key, level)
    \/ \E level \in Levels : CacheDeleteByTags({"t"}, level)

TagFrameSpec == Constructed(1) /\ [][TagFrameNext]_vars

\* ======================================================== cache optimizer
\* (optimized_modules/cache_optimizer.py).  A ttl is a float that the
\* strategy multiplies by 1.5 and 0.8: it is kept as an exact fraction.
\* A priority is the fraction that 0.6 * lru_factor + 0.4 * lfu_factor
\* computes.  CacheEntry.size and CacheEntry.priority are never read by
\* get, set or the eviction cycle and are left out.

RECURSIVE GCD(_, _)
GCD(a, b) == IF b = 0 THEN a ELSE GCD(b, a % b)

\* the fraction n / d in lowest terms
Frac(n, d) == [n |-> n \div GCD(n, d), d |-> d \div GCD(n, d)]

FracLess(x, y) == x.n * y.d < y.n * x.d

FracMin(x, y) == IF FracLess(y, x) THEN y ELSE x

FracMax(x, y) == IF FracLess(x, y) THEN y ELSE x

\* AdaptiveTTLStrategy(): max_ttl and min_ttl
max_ttl == 3600
min_ttl == 60

\* CacheOptimizer.set: ttl or 300.0
entry_default_ttl == 300

\* AdaptiveTTLStrategy.record_access keeps the last 10 timestamps of a key
pattern_limit == 10

\* HotspotDetector(): window_size and hotspot_threshold
window_size == 100
hotspot_threshold == 5

OptimizerKeys == {"a", "b"}

OptimizerValues == {"v"}

\* a CacheOptimizer as a value
OptimizerOf(cd, ap, log, hot, m) ==
    [cache_data |-> cd, access_patterns |-> ap, access_log |-> log,
     hotspots |-> hot, metrics |-> m]

\* self.cache_data.get(key): the position of the key in dict order, or 0
EntryIndex(cd, key) ==
    IF \E i \in 1..Len(cd) : cd[i].key = key
    THEN CHOOSE i \in 1..Len(cd) : cd[i].key = key
    ELSE 0

\* AdaptiveTTLStrategy.should_evict
should_evict(entry, t) ==
    (t - entry.last_accessed) * entry.ttl.d > entry.ttl.n

\* the ttl adjustment at the head of calculate_priority: avg_interval is
\* (last - first) / (len - 1)
AdjustedTtl(entry, pattern) ==
    IF Len(pattern) < 3
    THEN entry.ttl
    ELSE LET span == pattern[Len(pattern)] - pattern[1]
             k == Len(pattern) - 1
         IN  IF span < 60 * k
             THEN FracMin(Frac(max_ttl, 1), Frac(entry.ttl.n * 3, entry.ttl.d * 2))
             ELSE IF span > 1800 * k
             THEN FracMax(Frac(min_ttl, 1), Frac(entry.ttl.n * 4, entry.ttl.d * 5))
             ELSE entry.ttl

\* AdaptiveTTLStrategy.calculate_priority: the returned score
calculate_priority(entry, t) ==
    LET a == t - entry.last_accessed + 1
        b == t - entry.created_at + 1
    IN  Frac(6 * b + 4 * entry.access_count * a, 10 * a * b)

\* AdaptiveTTLStrategy.record_access
Strategy_record_access(ap, key, t) ==
    LET old == IF key \in DOMAIN ap THEN ap[key] ELSE <<>>
        new == Append(old, t)
    IN  DictPut(ap, key,
                IF Len(new) > pattern_limit
                THEN SubSeq(new, Len(new) - pattern_limit + 1, Len(new))
                ELSE new)

\* an update that counts over the whole log
update_hotspots_whole_log(log, hot, window, threshold) ==
    LET recent_window == (window * 3) \div 10
        count(key) == Cardinality({i \in 1..Len(log) : log[i] = key})
    IN  IF Len(log) >= recent_window
        THEN {log[i] : i \in {j \in 1..Len(log) :
                                 count(log[j]) >= threshold}}
        ELSE hot

\* HotspotDetector._update_hotspots on the log
update_hotspots(log, hot, window, threshold) ==
    LET recent_window == (window * 3) \div 10
        recent == IF recent_window = 0
                  THEN log
                  ELSE SubSeq(log, Len(log) - recent_window + 1, Len(log))
        count(key) == Cardinality({i \in 1..Len(recent) : recent[i] = key})
    IN  IF Len(log) >= recent_window
        THEN {recent[i] : i \in {j \in 1..Len(recent) :
                                    count(recent[j]) >= threshold}}
        ELSE hot

\* HotspotDetector.record_access: the log and the hot set afterwards
Hotspot_record_access(log, hot, key, window, threshold) ==
    LET appended == Append(log, key)
        kept == IF Len(appended) > window THEN Tail(appended) ELSE appended
    IN  [access_log |-> kept,
         hotspots |-> update_hotspots(kept, hot, window, threshold)]

\* CacheOptimizer._evict_expired at time t
CacheOptimizer_evict_expired(O, t) ==
    LET expired == {i \in 1..Len(O.cache_data) : should_evict(O.cache_data[i], t)}
    IN  [O EXCEPT !.cache_data = SelectSeq(@, LAMBDA e : ~should_evict(e, t)),
                  !.metrics.evictions = @ + Cardinality(expired)]

\* the entries after calculate_priority has run on each of them
WithAdjustedTtl(cd, ap) ==
    [i \in 1..Len(cd) |->
        [cd[i] EXCEPT !.ttl =
            AdjustedTtl(cd[i], IF cd[i].key \in DOMAIN ap
                               THEN ap[cd[i].key] ELSE <<>>)]]

\* entries.sort(key=lambda x: x[1]): entry i stands before entry j
SortsBefore(cd, i, j, t) ==
    \/ FracLess(calculate_priority(cd[i], t), calculate_priority(cd[j], t))
    \/ /\ calculate_priority(cd[i], t) = calculate_priority(cd[j], t)
       /\ i < j

\* a pass that evicts one entry, however many are stored
CacheOptimizer_evict_lru_one_entry(O, t) ==
    IF Len(O.cache_data) <= max_size
    THEN O
    ELSE LET cd == WithAdjustedTtl(O.cache_data, O.access_patterns)
             n == Len(cd)
             first == CHOOSE i \in 1..n :
                          \A j \in 1..n : j /= i => SortsBefore(cd, i, j, t)
         IN  [O EXCEPT !.cache_data =
                           [e \in 1..(n - 1) |->
                               IF e < first THEN cd[e] ELSE cd[e + 1]],
                       !.metrics.evictions = @ + 1]

\* CacheOptimizer._evict_lru at time t
CacheOptimizer_evict_lru(O, t) ==
    IF Len(O.cache_data) <= max_size
    THEN O
    ELSE LET cd == WithAdjustedTtl(O.cache_data, O.access_patterns)
             n == Len(cd)
             k == Max(1, n \div 10)
             to_evict == {i \in 1..n :
                            Cardinality({j \in 1..n : SortsBefore(cd, j, i, t)}) < k}
             kept(i) == i \notin to_evict
         IN  [O EXCEPT !.cache_data =
                           [e \in 1..(n - Cardinality(to_evict)) |->
                               cd[CHOOSE i \in 1..n :
                                      /\ kept(i)
                                      /\ Cardinality({j \in 1..i : kept(j)}) = e]],
                       !.metrics.evictions = @ + Cardinality(to_evict)]

\* CacheOptimizer.get at time t: the optimizer afterwards and the value
CacheOptimizer_get(O, key, t) ==
    LET i == EntryIndex(O.cache_data, key)
    IN  IF i = 0
        THEN [cache |-> [O EXCEPT !.metrics.misses = @ + 1,
                                  !.metrics.total_requests = @ + 1],
              value |-> CacheNone]
        ELSE LET h == Hotspot_record_access(O.access_log, O.hotspots, key,
                                            window_size, hotspot_threshold)
             IN  [cache |->
                     [O EXCEPT !.cache_data[i].last_accessed = t,
                               !.cache_data[i].access_count = @ + 1,
                               !.access_log = h.access_log,
                               !.hotspots = h.hotspots,
                               !.access_patterns =
                                   Strategy_record_access(@, key, t),
                               !.metrics.hits = @ + 1,
                               !.metrics.total_requests = @ + 1],
                  value |-> O.cache_data[i].value]

\* a set that stores the entry and never evicts
CacheOptimizer_set_without_eviction(O, key, value, ttl, t) ==
    LET given == Frac(IF ttl /= 0 THEN ttl ELSE entry_default_ttl, 1)
        entry == [key |-> key, value |-> value, created_at |-> t,
                  last_accessed |-> t, access_count |-> 1,
                  ttl |-> IF key \in O.hotspots
                          THEN Frac(2 * given.n, given.d) ELSE given]
        i == EntryIndex(O.cache_data, key)
    IN  [O EXCEPT !.cache_data = IF i = 0
                                 THEN Append(@, entry)
                                 ELSE [@ EXCEPT ![i] = entry]]

\* CacheOptimizer.set at time t: the optimizer afterwards (set returns True)
CacheOptimizer_set(O, key, value, ttl, t) ==
    LET given == Frac(IF ttl /= 0 THEN ttl ELSE entry_default_ttl, 1)
        entry == [key |-> key, value |-> value, created_at |-> t,
                  last_accessed |-> t, access_count |-> 1,
                  ttl |-> IF key \in O.hotspots
                          THEN Frac(2 * given.n, given.d) ELSE given]
        i == EntryIndex(O.cache_data, key)
        stored == IF i = 0
                  THEN Append(O.cache_data, entry)
                  ELSE [O.cache_data EXCEPT ![i] = entry]
    IN  CacheOptimizer_evict_lru([O EXCEPT !.cache_data = stored], t)

\* CacheOptimizer.delete
CacheOptimizer_delete(O, key) ==
    [O EXCEPT !.cache_data = SelectSeq(@, LAMBDA e : e.key /= key)]

\* CacheOptimizer.clear
CacheOptimizer_clear(O) ==
    [O EXCEPT !.cache_data = <<>>, !.metrics = NoMetrics]

\* OptimizationManager.reset_metrics: optimizer.metrics = CacheMetrics()
reset_metrics(O) == [O EXCEPT !.metrics = NoMetrics]

\* -------------------------------------------- actions on the optimizer
\* get is called until total_requests is MaxRequests
MaxRequests == 3

\* entries are evicted until the evictions counter is MaxEvictions
MaxEvictions == 2

Optimizer ==
    OptimizerOf(cache_data, access_patterns, access_log, hotspots, metrics)

SetOptimizer(O) ==
    /\ cache_data' = O.cache_data
    /\ access_patterns' = O.access_patterns
    /\ access_log' = O.access_log
    /\ hotspots' = O.hotspots
    /\ metrics' = O.metrics

\* CacheOptimizer.start
OptimizerStart ==
    /\ ~optimizer_running
    /\ optimizer_running' = TRUE
    /\ UNCHANGED <<schedVars, lockVars, cacheVars, cache_data, access_patterns,
                   access_log, hotspots, metrics, max_size>>

\* a call of CacheOptimizer.set
OptimizerSet(key, value, ttl) ==
    /\ metrics.evictions < MaxEvictions
    /\ SetOptimizer(CacheOptimizer_set(Optimizer, key, value, ttl, now))
    /\ UNCHANGED <<schedVars, lockVars, cacheVars, optimizer_running, max_size>>

\* a call of CacheOptimizer.get, while fewer than limit were made
OptimizerGetUpTo(key, limit) ==
    /\ metrics.total_requests < limit
    /\ SetOptimizer(CacheOptimizer_get(Optimizer, key, now).cache)
    /\ UNCHANGED <<schedVars, lockVars, cacheVars, optimizer_running, max_size>>

OptimizerGet(key) == OptimizerGetUpTo(key, MaxRequests)

\* a call of CacheOptimizer.delete
OptimizerDelete(key) ==
    /\ SetOptimizer(CacheOptimizer_delete(Optimizer, key))
    /\ UNCHANGED <<schedVars, lockVars, cacheVars, optimizer_running, max_size>>

\* one round of CacheOptimizer._cleanup_loop
EvictionCycle ==
    /\ optimizer_running
    /\ metrics.evictions < MaxEvictions
    /\ SetOptimizer(CacheOptimizer_evict_lru(
                        CacheOptimizer_evict_expired(Optimizer, now), now))
    /\ UNCHANGED <<schedVars, lockVars, cacheVars, optimizer_running, max_size>>

OptimizerNext ==
    \/ Tick
    \/ OptimizerStart
    \/ \E key \in OptimizerKeys, value \in OptimizerValues,
          ttl \in TtlArguments : OptimizerSet(key, value, ttl)
    \/ \E key \in OptimizerKeys : OptimizerGet(key)
    \/ \E key \in OptimizerKeys : OptimizerDelete(key)
    \/ EvictionCycle

OptimizerSpec == Constructed(1) /\ [][OptimizerNext]_vars

\* a call of CacheOptimizer.clear; the counters start again at zero, so
\* the calls stop once the detector has logged MaxRequests accesses
OptimizerClear ==
    /\ Len(access_log) < MaxRequests
    /\ SetOptimizer(CacheOptimizer_clear(Optimizer))
    /\ UNCHANGED <<schedVars, lockVars, cacheVars, optimizer_running, max_size>>

\* a call of OptimizationManager.reset_metrics, bounded as clear is
ResetMetrics ==
    /\ Len(access_log) < MaxRequests
    /\ SetOptimizer(reset_metrics(Optimizer))
    /\ UNCHANGED <<schedVars, lockVars, cacheVars, optimizer_running, max_size>>

\* the optimizer with clear and the manager's reset
ResetNext ==
    \/ OptimizerNext
    \/ OptimizerClear
    \/ ResetMetrics

ResetSpec == Constructed(1) /\ [][ResetNext]_vars

\* a key that is read again and again within one second, next to a key
\* that is only written; the optimizer has room for both
HotKey == "a"
ColdKey == "b"
RoomForTwo == 2

\* get is called until total_requests is MaxHotRequests
MaxHotRequests == 31

\* the ttl argument of every set: omitted
HotTtlArguments == {0}

HotKeyNext ==
    \/ \E key \in {HotKey, ColdKey}, ttl \in HotTtlArguments :
          OptimizerSet(key, "v", ttl)
    \/ OptimizerGetUpTo(HotKey, MaxHotRequests)
    \/ OptimizerStart
    \/ EvictionCycle

HotKeySpec == ConstructedWith(1, RoomForTwo) /\ [][HotKeyNext]_vars

\* the same two keys in an optimizer with room for one entry, written with
\* a ttl inside the range of the strategy whose double lies above max_ttl
BoostTtlArguments == {2000}

BoostNext ==
    \/ \E key \in {HotKey, ColdKey}, ttl \in BoostTtlArguments :
          OptimizerSet(key, "v", ttl)
    \/ OptimizerGetUpTo(HotKey, MaxHotRequests)
    \/ OptimizerStart
    \/ EvictionCycle

BoostSpec == Constructed(1) /\ [][BoostNext]_vars

\* OptimizationManager.initialize with enable_cache_optimization alone:
\* optimizer.max_size = config.cache_max_size, then optimizer.start()
ConfigureOptimizer(size) ==
    /\ max_size' = size
    /\ optimizer_running' = TRUE
    /\ UNCHANGED <<schedVars, lockVars, cacheVars, cache_data,
                   access_patterns, access_log, hotspots, metrics>>

\* an optimizer that is filled with numbered keys, one after the other
\* within one second, while the manager configures a max_size below or
\* above their number
MaxEntries == 21
PassKeys == 1..MaxEntries
ReadKeys == {1, 2}
ConfiguredSizes == {2, MaxEntries + 4}

PassNext ==
    \/ /\ Len(cache_data) < MaxEntries
       /\ OptimizerSet(Len(cache_data) + 1, "v", 0)
    \/ \E key \in ReadKeys : OptimizerGet(key)
    \/ \E size \in ConfiguredSizes : ConfigureOptimizer(size)
    \/ EvictionCycle

PassSpec == ConstructedWith(1, MaxEntries + 4) /\ [][PassNext]_vars

\* ----------------------------------------------------------------- claims
ActiveIds == DOMAIN active_tasks

\* the tasks waiting in the priority queues
QueuedTasks ==
    UNION {{queues[p][i] : i \in 1..Len(queues[p])} : p \in Priority}

QueuedTask(id) == CHOOSE t \in QueuedTasks : t.task_id = id

\* the tasks a step dispatches
Dispatched == {active_tasks'[id] : id \in DOMAIN active_tasks' \ DOMAIN active_tasks}

\* C1: in every reachable state the number of active tasks is at most the
\* current concurrency cap max_concurrent_tasks.
C1_ActiveWithinCap == Cardinality(ActiveIds) <= max_concurrent_tasks

\* C2: a task enters the active set only in a state where every identifier
\* of its dependency list is in the completed set.
C2_DispatchedDependenciesCompleted ==
    [][\A t \in Dispatched : t.dependencies \subseteq completed_tasks]_vars

\* a task with a dependency is active, its dependency completed
C2_Witness ==
    \E id \in ActiveIds :
        /\ active_tasks[id].dependencies /= {}
        /\ active_tasks[id].dependencies \subseteq completed_tasks

\* C3: a task that a scheduling tick takes from the queue and does not
\* dispatch is only deferred: a task leaves the priority queues only by
\* entering the active set, so it stays available to later ticks.
C3_DeferredTaskStaysQueued ==
    [][\A id \in QueuedIds : id \in QueuedIds' \/ id \in DOMAIN active_tasks']_vars

\* C4: with the loop ticking and admission always possible, every queued
\* task whose dependencies are all completed is eventually dispatched, also
\* when another task of its tier waits on an unmet dependency.
C4_ReadyTaskEventuallyDispatched ==
    \A id \in Ids :
        (/\ is_running
         /\ id \in QueuedIds
         /\ DependenciesMet(QueuedTask(id), completed_tasks))
            ~> (id \in ActiveIds)

\* C5: get_next_task returns a task whose dependencies are all completed and
\* that is in the highest-priority tier holding such a task; it returns no
\* task only when no queued task is ready.
C5_NextTaskIsHighestReady ==
    LET r == get_next_task(queues, completed_tasks)
        ready == {t \in QueuedTasks : DependenciesMet(t, completed_tasks)}
    IN  IF r.task = None
        THEN ready = {}
        ELSE /\ r.task \in ready
             /\ \A t \in ready : r.task.priority <= t.priority

NoQueuedDependencies == \A t \in QueuedTasks : t.dependencies = {}

HighestNonEmptyTier ==
    CHOOSE p \in Priority :
        /\ queues[p] /= <<>>
        /\ \A h \in Priority : h < p => queues[h] = <<>>

\* C6: when no queued task has a dependency, the task a tick dispatches is
\* of the highest-priority non-empty tier.
C6_DispatchFromHighestTier ==
    [][NoQueuedDependencies =>
         \A t \in Dispatched : t.priority = HighestNonEmptyTier]_vars

\* Scenario A: CRITICAL, NORMAL, NORMAL submitted with cap 1; the CRITICAL
\* task is active and the two NORMAL tasks wait
C6_Witness ==
    /\ max_concurrent_tasks = 1
    /\ completed_tasks = {}
    /\ Cardinality(task_map) = 3
    /\ NoQueuedDependencies
    /\ Len(queues[NORMAL]) = 2
    /\ \E id \in Ids :
          /\ ActiveIds = {id}
          /\ active_tasks[id].priority = CRITICAL
          /\ active_tasks[id].dependencies = {}

\* C7: submit_task with an identifier that is queued or active raises the
\* duplicate error and leaves the priority queues and the task map as they
\* were (submit_task touches neither the active nor the completed set).
C7_DuplicateRejected ==
    \A t \in SubmittableTasks :
        t.task_id \in QueuedIds \cup ActiveIds =>
            LET r == submit_task(queues, task_map, t)
            IN  /\ r.raised = "ValueError"
                /\ r.queues = queues
                /\ r.task_map = task_map

\* one identifier is queued and another is active
C7_Witness == QueuedIds /= {} /\ ActiveIds /= {}

\* C8: when the callback of a dispatched task raises, the task leaves the
\* active set and its identifier is recorded as completed, the loop keeps
\* running, and the bookkeeping is that of a callback that returned.
C8_FailedTaskCompleted ==
    [][\A id \in Ids :
         TaskFinished(id, TRUE) =>
            /\ id \notin DOMAIN active_tasks'
            /\ id \in completed_tasks'
            /\ id \notin task_map'
            /\ is_running' = is_running
            /\ TaskFinished(id, FALSE)]_vars

\* a task was dispatched after the task it depends on finished
C8_Witness ==
    \E id \in completed_tasks :
        /\ id \notin ActiveIds
        /\ \E a \in ActiveIds : id \in active_tasks[a].dependencies

\* C9: after any AutoScaler evaluation the concurrency cap lies in
\* [min_concurrent, max_concurrent].
C9_CapInScalerRange ==
    [][EvaluateScaling =>
         max_concurrent_tasks' \in min_concurrent..max_concurrent]_vars

\* C10: an evaluation that raises leaves the concurrency cap and the worker
\* pool as they were, and the scaling loop goes on monitoring.
C10_FailedEvaluationChangesNothing ==
    [][(EvaluateScaling /\ scaling_result' = "error") =>
         /\ max_concurrent_tasks' = max_concurrent_tasks
         /\ executor' = executor
         /\ is_monitoring']_vars

\* an evaluation has failed and the loop is still monitoring
C10_Witness == scaling_result = "error" /\ is_monitoring


\* requirements asked of can_execute_task: each component at, just above
\* and below what the monitor reports as available
ProbeRequirements ==
    [cpu_cores : {1, 20, 21}, memory_mb : {100, 400, 401},
     disk_mb : {50, 200, 201}, gpu_memory_mb : {0, 1}]

ProbeTasks == {Task(1, NORMAL, {}, req) : req \in ProbeRequirements}

Admitted(t) ==
    can_execute_task(t, active_tasks, max_concurrent_tasks, current_usage)

BelowCap == Cardinality(ActiveIds) < max_concurrent_tasks

\* the three components the scheduler compares
FitsCpuMemoryDisk(req, available) ==
    /\ available.cpu_cores >= req.cpu_cores
    /\ available.memory_mb >= req.memory_mb
    /\ available.disk_mb >= req.disk_mb

\* C11 as stated: can_execute_task is true exactly when the active count is
\* below the cap and the available resources are at least the requirement
\* in every component: CPU cores, memory, disk and GPU memory.
C11_AdmittedIffEveryComponentFits ==
    \A t \in ProbeTasks :
        Admitted(t) <=>
            /\ BelowCap
            /\ FitsCpuMemoryDisk(t.resource_requirement,
                                 get_available_resources(current_usage))
            /\ get_available_resources(current_usage).gpu_memory_mb
                   >= t.resource_requirement.gpu_memory_mb

\* C11 amended: can_execute_task is true exactly when the active count is
\* below the cap and the available CPU cores, memory and disk are each at
\* least the requirement; the GPU memory component is not compared.
C11_AdmittedIffCpuMemoryDiskFit ==
    \A t \in ProbeTasks :
        Admitted(t) <=>
            /\ BelowCap
            /\ FitsCpuMemoryDisk(t.resource_requirement,
                                 get_available_resources(current_usage))

\* below the cap on a loaded machine, one probed task is admitted and
\* another is refused for its resources
C11_Witness ==
    /\ BelowCap
    /\ ActiveIds /= {}
    /\ current_usage /= InitialUsage
    /\ \E t \in ProbeTasks : Admitted(t)
    /\ \E t \in ProbeTasks : ~Admitted(t)


\* the times from now on at which a ttl counted from now has not elapsed
TimesWithin(ttl) == {t \in now..MaxTime : t - now < EffectiveTtl(ttl)}

\* C12: for LocalCache and for IntelligentCache writing every tier,
\* set(key, v, ttl) with v not None followed by get(key) before ttl has
\* elapsed, with no call in between, returns v.
C12_GetAfterSetReturnsValue ==
    \A key \in TieredKeys \cup {FillerKey}, value \in CacheValues,
       ttl \in TtlArguments, tags \in TagArguments :
        LET written == LocalCache_set(Local, key, value, ttl, tags, now)
            stored == IntelligentCache_set(Tiers, key, value, ttl, tags,
                                           "all", now)
        IN  \A t \in TimesWithin(ttl) :
                /\ LocalCache_get(written, key, t).value = value
                /\ \A level \in Levels :
                       IntelligentCache_get(stored, key, level, t).value = value

\* a value larger than the Local budget was written to every tier and
\* read back within the same second
C12_Witness ==
    \E key \in DOMAIN data \cap DOMAIN redis_store \cap DOMAIN disk_files :
        /\ data[key] = "big"
        /\ last_set[key].at = now
        /\ MetaOf(metadata, key).created_at = now
        /\ MetaOf(metadata, key).access_count = 2

\* C14: a LocalCache.get issued more than t after the latest set of the key
\* with ttl t > 0 returns absent, whether or not a cleanup pass has run.
C14_LocalGetNeverServesExpired ==
    \A key \in DOMAIN last_set :
        now - last_set[key].at > last_set[key].ttl =>
            LocalCache_get(Local, key, now).value = CacheNone

\* an entry is still stored after its ttl has elapsed
C14_Witness ==
    \E key \in DOMAIN data \cap DOMAIN last_set :
        /\ now - last_set[key].at > last_set[key].ttl
        /\ MetaOf(metadata, key).access_count = 2

\* C15: an IntelligentCache.get issued more than ttl after the latest
\* set(key, v, ttl) returns absent, whatever tiers were written and
\* whatever the Local tier evicted in between.
C15_TieredGetNeverServesExpired ==
    \A key \in TieredKeys :
        (key \in DOMAIN last_set
            /\ now - last_set[key].at > last_set[key].ttl) =>
            IntelligentCache_get(Tiers, key, "all", now).value = CacheNone


RECURSIVE SumSizes(_)
SumSizes(md) == IF md = <<>> THEN 0 ELSE Head(md).size + SumSizes(Tail(md))

\* C17: whenever LocalCache._cleanup runs, also on a tier that is over its
\* budget, the pass completes and the sizes of the stored entries then sum
\* to at most the budget.
C17_CleanupCompletesWithinBudget ==
    [][CleanupPass =>
         /\ LocalCache_cleanup(Local, now).raised = "none"
         /\ SumSizes(metadata') <= LocalBudget]_vars

\* C18: after every LocalCache.set, for a value of any size, the sizes of
\* the stored entries sum to at most the budget.
C18_SetKeepsLocalWithinBudget ==
    [][(\E key \in CacheKeys, value \in CacheValues, ttl \in TtlArguments,
           tags \in TagArguments : LocalSet(key, value, ttl, tags))
         => SumSizes(metadata') <= LocalBudget]_vars

\* no entry has been read since it was stored
NoReads == \A i \in 1..Len(metadata) : metadata[i].access_count = 1

KeysOf(md) == [i \in 1..Len(md) |-> md[i].key]

\* the entries of md from position n + 1 on
DropFirst(md, n) == SubSeq(md, n + 1, Len(md))

\* the least number of oldest entries whose removal lets size fit
LeastEviction(md, size) ==
    CHOOSE n \in 0..Len(md) :
        /\ n = Len(md) \/ SumSizes(DropFirst(md, n)) + size <= LocalBudget
        /\ \A m \in 0..(n - 1) :
               SumSizes(DropFirst(md, m)) + size > LocalBudget

\* C19: with no reads, the entries a LocalCache.set evicts to make room are
\* the oldest-inserted ones, and no more of them than needed: the stored
\* keys afterwards are the newest of the other keys, in insertion order,
\* and then the key that was set.  With room for two equal entries,
\* inserting a, b, c leaves b and c.
C19_SetEvictsOldestInsertedFirst ==
    NoReads =>
        \A key \in CacheKeys, value \in CacheValues, ttl \in TtlArguments,
           tags \in TagArguments :
            LET others == SelectSeq(metadata, LAMBDA m : m.key /= key)
                n == LeastEviction(others, get_size(value))
                after == LocalCache_set(Local, key, value, ttl, tags, now)
            IN  KeysOf(after.metadata) =
                    Append(KeysOf(DropFirst(others, n)), key)

\* Scenario C: a, b, c were inserted with no reads and b, c are stored
C19_Witness ==
    /\ NoReads
    /\ DOMAIN last_set = {"a", "b", "c"}
    /\ KeysOf(metadata) = <<"b", "c">>
    /\ total_size = LocalBudget

LocalHolds(key) ==
    key \in DOMAIN data /\ ~LocalExpired(MetaOf(metadata, key), now)

RedisHolds(key) ==
    key \in DOMAIN redis_store /\ now < redis_store[key].expire_at

DiskHolds(key) ==
    /\ key \in DOMAIN disk_files
    /\ ~DiskExpired(DiskCacheOf(disk_files, disk_metadata), key, now)

\* C20: IntelligentCache.get consults Local, Remote and Disk in that order
\* and returns the value of the first tier holding the key; when only Disk
\* held it, the key is afterwards in Local and in Remote with that value,
\* and when Remote held it and Local did not, it is afterwards in Local.
C20_GetReadsThroughAndBackfills ==
    \A key \in TieredKeys :
        LET r == IntelligentCache_get(Tiers, key, "all", now)
            inRedis == pickle_loads(redis_store[key].value)
            onDisk == pickle_loads(disk_files[key])
        IN  /\ r.value = IF LocalHolds(key) THEN data[key]
                         ELSE IF RedisHolds(key) THEN inRedis
                         ELSE IF DiskHolds(key) THEN onDisk
                         ELSE CacheNone
            /\ (~LocalHolds(key) /\ RedisHolds(key)) =>
                   /\ key \in DOMAIN r.cache.local.data
                   /\ r.cache.local.data[key] = inRedis
            /\ (~LocalHolds(key) /\ ~RedisHolds(key) /\ DiskHolds(key)) =>
                   /\ key \in DOMAIN r.cache.local.data
                   /\ r.cache.local.data[key] = onDisk
                   /\ RedisCache_get(r.cache.redis, key, now) = onDisk

\* a get has just copied a value that only Disk held into Remote and Local
C20_Witness ==
    \E key \in TieredKeys :
        /\ LocalHolds(key) /\ RedisHolds(key) /\ DiskHolds(key)
        /\ MetaOf(metadata, key).created_at = now
        /\ MetaOf(metadata, key).access_count = 1
        /\ redis_store[key].expire_at = now + redis_default_ttl
        /\ disk_metadata[key].created_at < now


\* C13: in any state of the CacheOptimizer, after set(key, v, ttl) an
\* immediate get(key) returns v: the cleanup that set triggers never
\* evicts the entry just written.
C13_OptimizerGetAfterSetReturnsValue ==
    \A key \in OptimizerKeys, value \in OptimizerValues, ttl \in TtlArguments :
        CacheOptimizer_get(CacheOptimizer_set(Optimizer, key, value, ttl, now),
                           key, now).value = value

\* now - created_at > ttl
PastTtl(entry, t) == (t - entry.created_at) * entry.ttl.d > entry.ttl.n

\* C16: after a CacheOptimizer eviction cycle at time now no remaining
\* entry has now - created_at > ttl, so a get of an entry past its ttl
\* returns absent, however recently or often the entry was read.
C16_CycleLeavesNoEntryPastTtl ==
    optimizer_running =>
        LET after == CacheOptimizer_evict_lru(
                         CacheOptimizer_evict_expired(Optimizer, now), now)
        IN  \A i \in 1..Len(cache_data) :
                PastTtl(cache_data[i], now) =>
                    /\ EntryIndex(after.cache_data, cache_data[i].key) = 0
                    /\ CacheOptimizer_get(after, cache_data[i].key, now).value
                           = CacheNone

\* the keys whose latest set carried one of the tags
SetWithTags(tags) == {k \in DOMAIN last_set : last_set[k].tags \cap tags /= {}}

\* C21: after IntelligentCache.delete(key) on all tiers, get(key) returns
\* absent; after delete_by_tags(tags) on all tiers, get(k) returns absent
\* for every key k whose latest set carried one of the tags.
C21_DeletedKeysAreAbsent ==
    /\ \A key \in TieredKeys :
           LET deleted == IntelligentCache_delete(Tiers, key, "all", now).cache
           IN  IntelligentCache_get(deleted, key, "all", now).value = CacheNone
    /\ \A tags \in TieredTags :
           LET deleted == IntelligentCache_delete_by_tags(Tiers, tags, "all",
                                                          now).cache
           IN  \A k \in SetWithTags(tags) :
                   IntelligentCache_get(deleted, k, "all", now).value
                       = CacheNone

\* C22: while the Remote tier fails, IntelligentCache.get treats the read
\* as a miss and goes on to Disk, returning the Disk value when there is
\* one; when a tier's write fails during set, set still completes and the
\* other tiers hold the new value.
C22_TierFailureIsMissOrIgnoredWrite ==
    \A key \in TieredKeys :
        LET l == LocalCache_get(Local, key, now).value
            d == DiskCache_get(Tiers.disk, key, now).value
            g == IntelligentCache_get(Tiers, key, "all", now).value
            stored == IntelligentCache_set(Tiers, key, "v", 1, {}, "all", now)
        IN  /\ (~redis_up /\ l = CacheNone) => g = d
            /\ (~redis_up /\ ~disk_up) => g = l
            /\ LocalCache_get(stored.local, key, now).value = "v"
            /\ redis_up => RedisCache_get(stored.redis, key, now) = "v"
            /\ disk_up => DiskCache_get(stored.disk, key, now).value = "v"
            /\ ~redis_up => stored.redis = redis_store
            /\ ~disk_up => stored.disk = Tiers.disk

\* while Redis was down a get found the key on Disk only and copied it
\* into the Local tier; the copy into Redis was dropped
C22_Witness ==
    /\ ~redis_up
    /\ disk_up
    /\ \E key \in DOMAIN data \cap DOMAIN disk_files :
           /\ key \notin DOMAIN redis_store
           /\ MetaOf(metadata, key).ttl = default_ttl
           /\ MetaOf(metadata, key).created_at = now

\* ------------------------------------------- a HotspotDetector on its own
\* HotspotDetector(window_size=10, hotspot_threshold=5)
DetectorWindow == 10
DetectorThreshold == 5

\* the keys the detector is told about; UntouchedKey is never accessed
DetectorKeys == {"h", "o"}
UntouchedKey == "k2"

\* a call of HotspotDetector.record_access
DetectorAccess(key) ==
    /\ LET h == Hotspot_record_access(access_log, hotspots, key,
                                      DetectorWindow, DetectorThreshold)
       IN  /\ access_log' = h.access_log
           /\ hotspots' = h.hotspots
    /\ UNCHANGED <<schedVars, lockVars, cacheVars, cache_data, access_patterns, metrics,
                   optimizer_running, max_size>>

DetectorNext == \E key \in DetectorKeys : DetectorAccess(key)

DetectorSpec == Constructed(1) /\ [][DetectorNext]_vars

\* HotspotDetector(window_size=10, hotspot_threshold=2): two of the three
\* most recent accesses make a key hot
LowThreshold == 2

\* a call of record_access on that detector
LowThresholdAccess(key) ==
    /\ LET h == Hotspot_record_access(access_log, hotspots, key,
                                      DetectorWindow, LowThreshold)
       IN  /\ access_log' = h.access_log
           /\ hotspots' = h.hotspots
    /\ UNCHANGED <<schedVars, lockVars, cacheVars, cache_data,
                   access_patterns, metrics, optimizer_running, max_size>>

LowThresholdNext == \E key \in DetectorKeys : LowThresholdAccess(key)

LowThresholdSpec == Constructed(1) /\ [][LowThresholdNext]_vars

\* HotspotDetector.is_hotspot
is_hotspot(hot, key) == key \in hot

\* how often the key occurs in the log
Occurrences(log, key) == Cardinality({i \in 1..Len(log) : log[i] = key})

\* C23: with window 10 and threshold 5, a key accessed at least 5 times
\* among the 10 most recent recorded accesses is classified hot, and a key
\* that was never accessed is not.
C23_FrequentKeyIsHot ==
    /\ \A key \in DetectorKeys :
           Occurrences(access_log, key) >= DetectorThreshold
               => is_hotspot(hotspots, key)
    /\ ~is_hotspot(hotspots, UntouchedKey)

\* the stored entry of the key
EntryOf(key) == cache_data[EntryIndex(cache_data, key)]

StoredKeys == {cache_data[i].key : i \in 1..Len(cache_data)}

\* C24: whenever a key is classified hot, the ttl of its stored entry is
\* strictly greater than the ttl of a stored cold key that was set with the
\* same base ttl.
C24_HotEntryOutlivesColdEntry ==
    \A h \in StoredKeys \cap hotspots, c \in StoredKeys \ hotspots :
        FracLess(EntryOf(c).ttl, EntryOf(h).ttl)

\* C25: in every reachable state the ttl of every CacheOptimizer entry
\* lies in [min_ttl, max_ttl], after set with any ttl argument and after
\* every adaptive adjustment.
C25_TtlWithinConfiguredRange ==
    \A i \in 1..Len(cache_data) :
        /\ ~FracLess(cache_data[i].ttl, Frac(min_ttl, 1))
        /\ ~FracLess(Frac(max_ttl, 1), cache_data[i].ttl)

\* C26: the hits, misses and evictions counters of a CacheOptimizer never
\* decrease over get, set, delete, clear and eviction cycles.
C26_CountersNeverDecrease ==
    [][/\ metrics'.hits >= metrics.hits
       /\ metrics'.misses >= metrics.misses
       /\ metrics'.evictions >= metrics.evictions]_vars

\* the thread waits in acquire()
Blocked(thread) ==
    /\ lock_todo[thread] /= <<>>
    /\ Head(lock_todo[thread])[1] = "acquire"
    /\ ~CanAcquire(thread, Head(lock_todo[thread])[2])

\* the lock the blocked thread waits for
Wanted(thread) == Head(lock_todo[thread])[2]

\* C27: no interleaving of the loops, the worker completions and the
\* callers reaches a deadlock: there is never a set of threads each
\* waiting for a lock held by a thread of the set.
C27_NoCyclicWait ==
    \A waiting \in (SUBSET Threads) \ {{}} :
        \E t \in waiting : ~(Blocked(t) /\ Holder(Wanted(t)) \in waiting)

\* get_scheduler_stats holds the scheduler lock and the queue lock while
\* the worker waits for the first and the scheduling loop for the second
C27_Witness ==
    /\ lock_held["scaling"] = <<"scheduler", "queue">>
    /\ Blocked("worker")
    /\ Blocked("scheduling")
    /\ lock_held["caller"] = <<"optimizer", "detector">>
    /\ Blocked("maintenance")

\* C28: every task placed in the active set eventually leaves it and is
\* recorded as completed, for every interleaving with adjust_concurrency
\* and across stop() followed by start().
C28_ActiveTaskEventuallyCompleted ==
    \A id \in Ids :
        (id \in ActiveIds) ~> (id \notin ActiveIds /\ id \in completed_tasks)

\* C29: one AutoScaler evaluation multiplies the factors of the CPU rule,
\* the memory rule and the queue rule, sets the cap to
\* max(min_concurrent, min(floor(current * factor), max_concurrent)), and
\* does not call adjust_concurrency when that value is the current cap.
C29_EvaluationAppliesScaleFactor ==
    LET stats == [system_usage |-> current_usage,
                  queue_stats |-> [total |-> Cardinality(task_map)]]
        f == ScaleFactor(stats)
        expected == Max(min_concurrent,
                        Min((max_concurrent_tasks * f.num) \div f.den,
                            max_concurrent))
        r == evaluate_scaling(
                 max_concurrent_tasks,
                 get_scheduler_stats(active_tasks, task_map, current_usage))
    IN  /\ r.cap = expected
        /\ expected = max_concurrent_tasks => ~r.adjusted

\* C30: when LocalCache.set evicts to make room, an entry with a smaller
\* access count leaves before an entry with a larger access count, whatever
\* their last access times: no entry that stays has a smaller access count
\* than an entry that was evicted.
C30_SetEvictsLeastAccessedFirst ==
    \A key \in CacheKeys, value \in CacheValues :
        LET written == LocalCache_set(Local, key, value, 0, {}, now)
            others == DOMAIN data \ {key}
            evicted == others \ DOMAIN written.data
            kept == others \cap DOMAIN written.data
        IN  \A e \in evicted, k \in kept :
                MetaOf(metadata, e).access_count
                    <= MetaOf(metadata, k).access_count

\* C31: a LocalCache.get of an entry whose ttl has elapsed returns absent
\* and leaves the stored entries and total_size as they were; only the
\* cleanup pass, a set or a delete removes the entry.
C31_GetLeavesExpiredEntryStored ==
    \A key \in DOMAIN data :
        LocalExpired(MetaOf(metadata, key), now) =>
            LET r == LocalCache_get(Local, key, now)
            IN  /\ r.value = CacheNone
                /\ r.cache = Local

\* C32: IntelligentCache.delete_by_tags(tags) leaves every entry set with
\* none of the tags stored and unchanged in the Local, the Remote and the
\* Disk tier, wherever it was stored.
C32_DeleteByTagsKeepsOtherEntries ==
    \A level \in Levels :
        LET tags == {"t"}
            after == IntelligentCache_delete_by_tags(Tiers, tags, level,
                                                     now).cache
        IN  \A key \in DOMAIN last_set \ SetWithTags(tags) :
                /\ key \in DOMAIN data =>
                       /\ key \in DOMAIN after.local.data
                       /\ after.local.data[key] = data[key]
                       /\ MetaOf(after.local.metadata, key)
                              = MetaOf(metadata, key)
                /\ key \in DOMAIN redis_store =>
                       /\ key \in DOMAIN after.redis
                       /\ after.redis[key] = redis_store[key]
                /\ key \in DOMAIN disk_files =>
                       /\ key \in DOMAIN after.disk.files
                       /\ after.disk.files[key] = disk_files[key]

\* R = floor(0.3 x window_size)
RecentCount(window) == (3 * window) \div 10

\* the n most recent events of the log
MostRecent(log, n) == SubSeq(log, Len(log) - n + 1, Len(log))

\* C33: after every HotspotDetector.record_access at which the log holds at
\* least R = floor(0.3 x window_size) >= 1 events, the hot set is exactly
\* the set of keys that occur at least hotspot_threshold times among the R
\* most recent events; the log never holds more than window_size events.
C33_HotSetIsFrequentAmongRecent ==
    \A key \in DetectorKeys :
        LET h == Hotspot_record_access(access_log, hotspots, key,
                                       DetectorWindow, LowThreshold)
            R == RecentCount(DetectorWindow)
        IN  /\ Len(h.access_log) <= DetectorWindow
            /\ Len(h.access_log) >= R =>
                   h.hotspots =
                       {k \in DetectorKeys :
                           Occurrences(MostRecent(h.access_log, R), k)
                               >= LowThreshold}

\* the log is full, one key is hot, and the other key occurs often enough
\* in the log but not among the R most recent events
C33_Witness ==
    /\ Len(access_log) = DetectorWindow
    /\ hotspots = {"h"}
    /\ Occurrences(access_log, "o") >= LowThreshold

\* the ttl of the entry set(key, "v", ttl) leaves stored, or <<>> when the
\* optimizer does not hold the key afterwards
StoredTtl(O, key) ==
    LET i == EntryIndex(O.cache_data, key)
    IN  IF i = 0 THEN <<>> ELSE O.cache_data[i].ttl

\* C34: CacheOptimizer.set(key, v, ttl) stores an entry whose ttl is
\* exactly 2 x ttl when the key is hot at the time of the write and exactly
\* ttl otherwise; setting the key again with the same ttl leaves the same
\* stored ttl.
C34_SetStoresTtlOrTwiceTtl ==
    \A key \in OptimizerKeys, ttl \in TtlArguments \ {0} :
        LET once == CacheOptimizer_set(Optimizer, key, "v", ttl, now)
            twice == CacheOptimizer_set(once, key, "v", ttl, now)
            expected == IF is_hotspot(hotspots, key)
                        THEN Frac(2 * ttl, 1) ELSE Frac(ttl, 1)
        IN  /\ StoredTtl(once, key) \in {<<>>, expected}
            /\ StoredTtl(twice, key) \in {<<>>, expected}

\* the recorded accesses of the key
PatternOf(key) ==
    IF key \in DOMAIN access_patterns THEN access_patterns[key] ELSE <<>>

\* three or more accesses are recorded and their mean interval is below
\* (above) the number of seconds
MeanIntervalBelow(pattern, seconds) ==
    /\ Len(pattern) >= 3
    /\ pattern[Len(pattern)] - pattern[1] < seconds * (Len(pattern) - 1)

MeanIntervalAbove(pattern, seconds) ==
    /\ Len(pattern) >= 3
    /\ pattern[Len(pattern)] - pattern[1] > seconds * (Len(pattern) - 1)

\* C35: the adaptive adjustment of a stored entry, whatever ttl the entry
\* has at that moment (a doubled one included): with a mean access interval
\* below 60 s the new ttl is at least the previous one and at most max_ttl;
\* with a mean interval above 1800 s it is at most the previous one and at
\* least min_ttl.
C35_AdjustmentKeepsDirectionAndRange ==
    \A i \in 1..Len(cache_data) :
        LET entry == cache_data[i]
            pattern == PatternOf(entry.key)
            new == AdjustedTtl(entry, pattern)
        IN  /\ MeanIntervalBelow(pattern, 60) =>
                   /\ ~FracLess(new, entry.ttl)
                   /\ ~FracLess(Frac(max_ttl, 1), new)
            /\ MeanIntervalAbove(pattern, 1800) =>
                   /\ ~FracLess(entry.ttl, new)
                   /\ ~FracLess(new, Frac(min_ttl, 1))

\* C36: one pass of CacheOptimizer._evict_lru over n entries removes
\* exactly max(1, floor(n / 10)) entries when n > max_size, none of them
\* with a higher priority score than an entry that stays, and removes
\* nothing when n <= max_size.
C36_PassEvictsLowestTenth ==
    LET n == Len(cache_data)
        after == CacheOptimizer_evict_lru(Optimizer, now)
        removed == {i \in 1..n :
                       EntryIndex(after.cache_data, cache_data[i].key) = 0}
        score == [i \in 1..n |-> calculate_priority(cache_data[i], now)]
    IN  /\ n > max_size =>
               /\ Cardinality(removed) = Max(1, n \div 10)
               /\ \A r \in removed, k \in (1..n) \ removed :
                      ~FracLess(score[k], score[r])
        /\ n <= max_size => after = Optimizer

\* a pass over all MaxEntries entries has removed two of them at once
C36_Witness ==
    /\ Len(cache_data) = MaxEntries - 2
    /\ metrics.evictions = 2
    /\ max_size < Len(cache_data)

\* how many queue positions hold the identifier
QueuePositions(id) ==
    Cardinality(UNION {{<<p, i>> : i \in {j \in 1..Len(queues[p]) :
                                              queues[p][j].task_id = id}} :
                       p \in Priority})

\* in how many of the three places the identifier is
Places(id) ==
    QueuePositions(id)
        + (IF id \in ActiveIds THEN 1 ELSE 0)
        + (IF id \in completed_tasks THEN 1 ELSE 0)

\* C37: every task accepted by submit_task is in exactly one place: at one
\* position of a priority queue, in the active set, or in the completed
\* set; none is lost and none is queued twice.
C37_AcceptedTaskInExactlyOnePlace ==
    \A id \in task_map \cup completed_tasks : Places(id) = 1

\* C38: once an identifier is dispatched or recorded as completed, a later
\* submit_task with that identifier is rejected, and no identifier is in
\* the active set and in the completed set at the same time.
C38_IdentifierDispatchedAtMostOnce ==
    /\ \A t \in SubmittableTasks :
           t.task_id \in ActiveIds \cup completed_tasks =>
               submit_task(queues, task_map, t).raised = "ValueError"
    /\ ActiveIds \cap completed_tasks = {}

\* C39: with max_size fixed, after every CacheOptimizer.set the optimizer
\* holds at most max_size entries, whatever set, get, delete and eviction
\* cycles came before.
C39_SetKeepsAtMostMaxSize ==
    /\ Len(cache_data) <= max_size
    /\ \A key \in OptimizerKeys, value \in OptimizerValues,
          ttl \in TtlArguments :
           Len(CacheOptimizer_set(Optimizer, key, value, ttl, now).cache_data)
               <= max_size

\* the optimizer is full after a set that evicted an entry and a get of
\* the key that stayed
C39_Witness ==
    /\ Len(cache_data) = max_size
    /\ metrics.evictions > 0
    /\ metrics.hits > 0
    /\ cache_data[1].access_count > 1

\* C40: in every reachable state of the Local tier, after any interleaving
\* of set, get, delete, delete_by_tags and cleanup passes, the value map
\* and the metadata map have the same keys, and total_size is the sum of
\* the recorded sizes of the stored entries: 0 when the tier is empty and
\* never negative.
C40_LocalMapsAndSizeAgree ==
    /\ DOMAIN data = {metadata[i].key : i \in 1..Len(metadata)}
    /\ Cardinality(DOMAIN data) = Len(metadata)
    /\ total_size = SumSizes(metadata)
    /\ total_size >= 0
    /\ DOMAIN data = {} => total_size = 0

\* one untagged entry that was read is stored alone: the other key that
\* was set has been deleted, and the cleanup thread has ended on a tier
\* that held an entry larger than the budget
C40_Witness ==
    /\ Len(metadata) = 1
    /\ metadata[1].tags = {}
    /\ metadata[1].access_count = 2
    /\ total_size = 1
    /\ DOMAIN last_set = {metadata[1].key}
    /\ metadata[1].created_at < now
    /\ ~cleanup_alive

====
